---- MODULE Spec2Model ----
(***************************************************************************)
(* ObjectSync: incremental diff, bounded worker pool, persisted state and  *)
(* multi-bucket orchestration, for the download engine (package backup)    *)
(* and the upload engine (package upload).                                 *)
(*                                                                         *)
(* Strings (object keys, ETags) are sequences of one-character strings, so *)
(* that strings.HasSuffix, strings.Trim and filepath.Join are computed and *)
(* not assumed.  Times are instants (integers); sizes are integers.        *)
(***************************************************************************)
EXTENDS Integers, Sequences, FiniteSets, TLC

\* ------------------------------------------------------------- bounds
\* Number of buckets of one orchestrator run, workers per job, and
\* invocations of the program that follow each other.
MaxJobs == 2
MaxWorkers == 2
MaxRounds == 2

\* The sizes of the model are scaled: FormatSize's unit, 1024 in the code, is
\* Unit here, so that a size past its last unit is a small number.
Unit == 2

\* The keys the store returns in one page at most, and the objects of the
\* listings that are paged.
MaxPage == 3
MaxListed == 4

Jobs == 1..MaxJobs
WorkerIds == 1..MaxWorkers

\* ------------------------------------------------------------ strings
Quote == "\""
Slash == "/"
\* A byte that is not valid UTF-8 and the rune encoding/json writes for it.
InvalidByte == "xFF"
ReplacementChar == "uFFFD"

HasSuffix(s, suffix) ==
    /\ Len(s) >= Len(suffix)
    /\ SubSeq(s, Len(s) - Len(suffix) + 1, Len(s)) = suffix

RECURSIVE TrimLeft(_, _)
TrimLeft(s, cutset) ==
    IF s # <<>> /\ Head(s) \in cutset THEN TrimLeft(Tail(s), cutset) ELSE s

RECURSIVE TrimRight(_, _)
TrimRight(s, cutset) ==
    IF s # <<>> /\ s[Len(s)] \in cutset
    THEN TrimRight(SubSeq(s, 1, Len(s) - 1), cutset)
    ELSE s

\* strings.Trim(s, cutset)
Trim(s, cutset) == TrimRight(TrimLeft(s, cutset), cutset)

\* filepath.Join(OutputDir, key), relative to OutputDir: Join cleans its
\* result, which drops the trailing separators of the key.
LocalPath(key) == TrimRight(key, {Slash})

\* time.Time.Equal: the same instant.
TimeEqual(t, u) == t = u

\* ---------------------------------------------------------- functions
EmptyMap == [x \in {} |-> 0]

Put(f, k, v) == [x \in DOMAIN f \cup {k} |-> IF x = k THEN v ELSE f[x]]

Count(f, k) == IF k \in DOMAIN f THEN f[k] ELSE 0

Range(s) == {s[n] : n \in DOMAIN s}

\* ---------------------------------------------------------- data model
\* FileState{ETag, LastModified, Size}
FileState(etag, lastModified, size) ==
    [ETag |-> etag, LastModified |-> lastModified, Size |-> size]

\* State{LastBackup | LastUpload, Files}; New() starts from an empty map.
NewState == [Last |-> 0, Files |-> EmptyMap]

\* A destination: the local tree under OutputDir (download), keyed by the
\* cleaned relative path, or the bucket (upload), keyed by the object key.
\* os.Stat of OutputDir itself succeeds once Run has created it.
Exists(fs, path) == path = <<>> \/ path \in DOMAIN fs

\* A container marker: a key ending in "/" with size 0.
IsMarker(key, size) == HasSuffix(key, <<Slash>>) /\ size = 0

\* ------------------------------------------------------ download: diff
\* needsDownload with the size test inverted.
needsDownload_SizeInverted(state, localFS, key, etag, lastModified, size) ==
    IF ~Exists(localFS, LocalPath(key)) THEN TRUE
    ELSE IF key \notin DOMAIN state.Files THEN TRUE
    ELSE LET st == state.Files[key]
         IN  \/ st.ETag # etag
             \/ ~TimeEqual(st.LastModified, lastModified)
             \/ st.Size = size

\* needsDownload comparing the ETag and the modification time only.
needsDownload_NoSize(state, localFS, key, etag, lastModified, size) ==
    IF ~Exists(localFS, LocalPath(key)) THEN TRUE
    ELSE IF key \notin DOMAIN state.Files THEN TRUE
    ELSE LET st == state.Files[key]
         IN  \/ st.ETag # etag
             \/ ~TimeEqual(st.LastModified, lastModified)

\* needsDownload without the stat of the local path.
needsDownload_NoStat(state, localFS, key, etag, lastModified, size) ==
    IF key \notin DOMAIN state.Files THEN TRUE
    ELSE LET st == state.Files[key]
         IN  \/ st.ETag # etag
             \/ ~TimeEqual(st.LastModified, lastModified)
             \/ st.Size # size

\* Backup.needsDownload.  Both branches of the marker test stat the same
\* local path and return true when it does not exist.
needsDownload(state, localFS, key, etag, lastModified, size) ==
    IF ~Exists(localFS, LocalPath(key)) THEN TRUE
    ELSE IF key \notin DOMAIN state.Files THEN TRUE
    ELSE LET st == state.Files[key]
         IN  \/ st.ETag # etag
             \/ ~TimeEqual(st.LastModified, lastModified)
             \/ st.Size # size

\* filterObjects without the branch for container markers.
filterObjectsKeep_NoMarkerBranch(incremental, state, localFS, obj) ==
    IF obj.Key = <<>> THEN FALSE
    ELSE IF ~incremental THEN TRUE
    ELSE needsDownload(state, localFS, obj.Key, Trim(obj.ETag, {Quote}),
                       obj.LastModified, obj.Size)

\* filterObjects testing for a container marker before the incremental flag.
filterObjectsKeep_MarkerFirst(incremental, state, localFS, obj) ==
    IF obj.Key = <<>> THEN FALSE
    ELSE IF HasSuffix(obj.Key, <<Slash>>) /\ obj.Size = 0
         THEN ~Exists(localFS, LocalPath(obj.Key))
    ELSE IF ~incremental THEN TRUE
    ELSE needsDownload(state, localFS, obj.Key, Trim(obj.ETag, {Quote}),
                       obj.LastModified, obj.Size)

\* filterObjects without the test for an empty key.
filterObjectsKeep_NoEmptyTest(incremental, state, localFS, obj) ==
    IF ~incremental THEN TRUE
    ELSE IF HasSuffix(obj.Key, <<Slash>>) /\ obj.Size = 0
         THEN ~Exists(localFS, LocalPath(obj.Key))
    ELSE needsDownload(state, localFS, obj.Key, Trim(obj.ETag, {Quote}),
                       obj.LastModified, obj.Size)

\* The body of the loop of Backup.filterObjects: whether obj is appended.
filterObjectsKeep(incremental, state, localFS, obj) ==
    IF obj.Key = <<>> THEN FALSE
    ELSE IF ~incremental THEN TRUE
    ELSE IF HasSuffix(obj.Key, <<Slash>>) /\ obj.Size = 0
         THEN ~Exists(localFS, LocalPath(obj.Key))
    ELSE needsDownload(state, localFS, obj.Key, Trim(obj.ETag, {Quote}),
                       obj.LastModified, obj.Size)

\* Backup.filterObjects
filterObjects(incremental, state, localFS, objects) ==
    SelectSeq(objects,
              LAMBDA obj : filterObjectsKeep(incremental, state, localFS, obj))

\* -------------------------------------------------------- upload: diff
\* Upload.needsUpload: the state record, then modification time and size.
needsUpload(state, file) ==
    IF file.Key \notin DOMAIN state.Files THEN TRUE
    ELSE LET st == state.Files[file.Key]
         IN  \/ ~TimeEqual(st.LastModified, file.LastModified)
             \/ st.Size # file.Size

\* The body of the loop of Upload.filterFiles.
filterFilesKeep(incremental, state, file) ==
    IF ~incremental THEN TRUE ELSE needsUpload(state, file)

\* Upload.filterFiles
filterFiles(incremental, state, files) ==
    SelectSeq(files, LAMBDA file : filterFilesKeep(incremental, state, file))

\* ------------------------------------------------------- state update
\* The fingerprint Backup.updateState records for a listed object.
ObjectFileState(obj) ==
    FileState(Trim(obj.ETag, {Quote}), obj.LastModified, obj.Size)

\* The fingerprint Upload.updateState records for an uploaded file.
LocalFileState(file) == FileState(<<>>, file.LastModified, file.Size)

RECURSIVE backupUpdateFiles(_, _)
backupUpdateFiles(files, objects) ==
    IF objects = <<>> THEN files
    ELSE LET obj == Head(objects)
         IN  backupUpdateFiles(
                 IF obj.Key = <<>> THEN files
                 ELSE Put(files, obj.Key, ObjectFileState(obj)),
                 Tail(objects))

\* Backup.updateState leaving out the container markers.
backupUpdateState_SkipMarkers(incremental, state, objects) ==
    IF ~incremental THEN state
    ELSE [state EXCEPT !.Files =
            backupUpdateFiles(state.Files,
                SelectSeq(objects, LAMBDA obj : ~IsMarker(obj.Key, obj.Size)))]

\* Backup.updateState
backupUpdateState(incremental, state, objects) ==
    IF ~incremental THEN state
    ELSE [state EXCEPT !.Files = backupUpdateFiles(state.Files, objects)]

RECURSIVE uploadUpdateFiles(_, _)
uploadUpdateFiles(files, uploaded) ==
    IF uploaded = <<>> THEN files
    ELSE LET file == Head(uploaded)
         IN  uploadUpdateFiles(Put(files, file.Key, LocalFileState(file)),
                               Tail(uploaded))

\* An Upload.updateState that builds the map anew from the uploaded files.
uploadUpdateState_Rebuild(incremental, state, uploaded) ==
    IF ~incremental THEN state
    ELSE [state EXCEPT !.Files = uploadUpdateFiles(EmptyMap, uploaded)]

\* Upload.updateState
uploadUpdateState(incremental, state, uploaded) ==
    IF ~incremental THEN state
    ELSE [state EXCEPT !.Files = uploadUpdateFiles(state.Files, uploaded)]

\* ------------------------------------------------- state file as JSON
\* encoding/json writes a string with every invalid UTF-8 byte replaced by
\* U+FFFD; this applies to the keys of the files map and to the ETag.
JsonString(s) ==
    [n \in DOMAIN s |-> IF s[n] = InvalidByte THEN ReplacementChar ELSE s[n]]

\* json.Encoder.Encode(state): the document written to the state file.  The
\* encoder writes the map keys in the byte order of the keys as they are;
\* two keys that encode alike give two members of the same name, and the
\* decoder keeps the later one: the one with the invalid byte (0xFF) where
\* the other has U+FFFD (0xEF 0xBF 0xBD).
JsonEncode(state) ==
    LET keys == DOMAIN state.Files
        names == {JsonString(k) : k \in keys}
        after(k, k2) == \E n \in DOMAIN k :
                            /\ \A m \in 1..(n - 1) : k[m] = k2[m]
                            /\ k[n] # k2[n]
                            /\ k[n] = InvalidByte
        last(name) == CHOOSE k \in keys :
                          /\ JsonString(k) = name
                          /\ \A k2 \in keys :
                                (JsonString(k2) = name /\ k2 # k)
                                => after(k, k2)
    IN  [last |-> state.Last,
         files |-> [name \in names |->
                      [etag |-> JsonString(state.Files[last(name)].ETag),
                       last_modified |-> state.Files[last(name)].LastModified,
                       size |-> state.Files[last(name)].Size]]]

\* json.Decoder.Decode(b.state) into the fresh state of New().
JsonDecode(doc) ==
    [Last |-> doc.last,
     Files |-> [k \in DOMAIN doc.files |->
                  FileState(doc.files[k].etag, doc.files[k].last_modified,
                            doc.files[k].size)]]

\* ------------------------------------------------------------- state
VARIABLES
    \* configuration of one invocation (Options, MultiBucketSettings)
    direction,      \* "download" (runBucketsBackup) or "upload" (runUpload)
    incremental,    \* settings.Incremental
    njobs,          \* len(settings.Buckets)
    workers,        \* Options.Workers of each job
    buckets,        \* cm.config.Buckets: name and state_file of each bucket
    verbose,        \* Options.Verbose of each job
    \* the world outside the process
    source,         \* per job: bucket listing (download), local tree (upload)
    dest,           \* per job: local tree (download), bucket (upload)
    stateFile,      \* per job: the file at Options.StateFile
    now,            \* time.Now(), a logical clock
    round,          \* which invocation of the program this is
    \* the orchestrator loop
    orchPc,         \* "loop", or "done" once the orchestrator has returned
    bucket,         \* index i of the range loop
    successCount,
    failureCount,
    orchErr,        \* whether the orchestrator returned an error
    \* Backup / Upload instance of each job and the position of its Run
    pc,
    state,          \* b.state
    objects,        \* the enumerated catalog
    toTransfer,     \* toDownload / toUpload
    runErr,         \* what Run returned: "none" (nil) or the failed step
    progress,       \* Tracker counters
    \* downloadObjects / uploadFiles of each job
    objectChan,
    sent,           \* how many tasks the feeder goroutine has sent
    chanClosed,
    errorChan,
    errorClosed,
    wpc,            \* per worker: "none", "idle", "busy", "done"
    wtask,          \* per worker: the task in progress
    \* history, for stating the properties
    startLog,       \* the jobs whose Run was called, in order
    filtered,       \* per job: the diff has run
    stateOpens,     \* per job: os.Open(StateFile) calls
    stateCreates,   \* per job: os.Create(StateFile) calls
    handed,         \* per job: the keys received from objectChan, in order
    completed,      \* per job: key -> transfers of it that returned nil
    timeFailed,     \* per job: keys whose os.Chtimes returned an error
    \* listObjects, page by page
    pageSize,       \* how many keys the store returns in one page
    token,          \* input.ContinuationToken
    requests,       \* the continuation tokens of the requests made, in order
    stateFile0,     \* per job: the state file as the invocation found it
    prevOk,         \* per job: the previous invocation's Run returned nil
    prevErr,        \* per job: what the previous invocation's Run returned
    prevSource,     \* per job: the catalog the previous invocation found
    prevDone        \* per job: the keys the previous invocation transferred

vars == <<direction, incremental, njobs, workers, buckets, verbose, source,
          dest,
          stateFile,
          now, round, orchPc, bucket, successCount, failureCount, orchErr,
          pc, state, objects, toTransfer, runErr, progress, objectChan,
          sent, chanClosed, errorChan, errorClosed, wpc, wtask, startLog,
          filtered, stateOpens, stateCreates, handed, completed,
          timeFailed, pageSize, token, requests, stateFile0, prevOk,
          prevErr, prevSource, prevDone>>

config == <<direction, incremental, njobs, workers, buckets, verbose>>
world == <<source, dest, stateFile, now>>
orch == <<orchPc, bucket, successCount, failureCount, orchErr>>
pool == <<objectChan, sent, chanClosed, errorChan, errorClosed, wpc, wtask>>
history == <<startLog, filtered, stateOpens, stateCreates>>
previous == <<stateFile0, prevOk, prevErr, prevSource, prevDone>>
transfers == <<handed, completed, timeFailed>>
listing == <<pageSize, token, requests>>

\* The state file of a job: absent, unreadable as JSON, or a document.
NoFile == [status |-> "missing", doc |-> JsonEncode(NewState)]
CorruptFile == [status |-> "corrupt", doc |-> JsonEncode(NewState)]
FileOf(st) == [status |-> "ok", doc |-> JsonEncode(st)]

\* ---------------------------------------- which file a job's state is in
\* ToBucketSettings: the state_file of the bucket's configuration, or a
\* name made of the bucket's name when there is none.
BucketStateFile(bucketConfig) ==
    IF bucketConfig.StateFile = <<>>
    THEN <<".backup_state_">> \o bucketConfig.Name \o <<".json">>
    ELSE bucketConfig.StateFile

\* ConfigManager.ToBucketSettings
ToBucketSettings(cfg) ==
    [i \in DOMAIN cfg |->
        [Name |-> cfg[i].Name, StateFile |-> BucketStateFile(cfg[i])]]

\* Options.StateFile of job i: the bucket settings' (runBucketsBackup), or
\* a name made of the bucket's name (the upload loop).
OptionsStateFile(i) ==
    IF direction = "download" THEN ToBucketSettings(buckets)[i].StateFile
    ELSE <<".upload_">> \o buckets[i].Name \o <<"_state.json">>

\* The file on disk that job i opens and creates: jobs whose Options.StateFile
\* are the same path share the file of the first of them.
StateFileId(i) ==
    CHOOSE f \in Jobs :
        /\ OptionsStateFile(f) = OptionsStateFile(i)
        /\ \A g \in Jobs : OptionsStateFile(g) = OptionsStateFile(i) => f <= g

\* A configuration whose buckets have names of their own and no state_file.
DefaultBuckets ==
    [i \in Jobs |-> [Name |-> <<"b", ToString(i)>>, StateFile |-> <<>>]]

\* input.ContinuationToken of the first request: nil.
NoToken == <<>>

NewTracker == [totalFiles |-> 0, totalSize |-> 0,
               currentFiles |-> 0, currentSize |-> 0]

\* A process that has just started: no job constructed yet.
InitProcess ==
    /\ orchPc = "loop"
    /\ bucket = 1
    /\ successCount = 0
    /\ failureCount = 0
    /\ orchErr = FALSE
    /\ pc = [j \in Jobs |-> "new"]
    /\ state = [j \in Jobs |-> NewState]
    /\ objects = [j \in Jobs |-> <<>>]
    /\ toTransfer = [j \in Jobs |-> <<>>]
    /\ runErr = [j \in Jobs |-> "none"]
    /\ progress = [j \in Jobs |-> NewTracker]
    /\ objectChan = [j \in Jobs |-> <<>>]
    /\ sent = [j \in Jobs |-> 0]
    /\ chanClosed = [j \in Jobs |-> FALSE]
    /\ errorChan = [j \in Jobs |-> <<>>]
    /\ errorClosed = [j \in Jobs |-> FALSE]
    /\ wpc = [j \in Jobs |-> [w \in WorkerIds |-> "none"]]
    /\ wtask = [j \in Jobs |-> [w \in WorkerIds |-> <<>>]]
    /\ startLog = <<>>
    /\ filtered = [j \in Jobs |-> FALSE]
    /\ stateOpens = [j \in Jobs |-> 0]
    /\ stateCreates = [j \in Jobs |-> 0]
    /\ handed = [j \in Jobs |-> <<>>]
    /\ completed = [j \in Jobs |-> EmptyMap]
    /\ timeFailed = [j \in Jobs |-> {}]
    /\ token = NoToken
    /\ requests = <<>>

\* Nothing is known of an invocation before the first.
InitPrevious ==
    /\ stateFile0 = stateFile
    /\ prevOk = [j \in Jobs |-> FALSE]
    /\ prevErr = [j \in Jobs |-> "none"]
    /\ prevSource = [j \in Jobs |-> <<>>]
    /\ prevDone = [j \in Jobs |-> {}]

\* ------------------------------------------------- Run: before the pool
\* The range loop of runBucketsBackup / runUpload reaches bucket i:
\* New(options) and the call of Run.
OrchStartJob ==
    /\ orchPc = "loop"
    /\ bucket <= njobs
    /\ pc[bucket] = "new"
    /\ pc' = [pc EXCEPT ![bucket] = "init"]
    /\ state' = [state EXCEPT ![bucket] = NewState]
    /\ progress' = [progress EXCEPT ![bucket] = NewTracker]
    /\ startLog' = Append(startLog, bucket)
    /\ UNCHANGED <<config, listing, world, round, orch, objects, toTransfer, runErr,
                   pool, filtered, stateOpens, stateCreates,
                   previous, transfers>>

\* Run going on to saveState with the error in hand.
ReturnErr_ThenSave(j, step) ==
    /\ pc' = [pc EXCEPT ![j] = "save"]
    /\ runErr' = [runErr EXCEPT ![j] = step]

\* Run returns err from the step named `step`.
ReturnErr(j, step) ==
    /\ pc' = [pc EXCEPT ![j] = "ret"]
    /\ runErr' = [runErr EXCEPT ![j] = step]

\* initS3Client: session.NewSession succeeds or fails.
InitS3Client(j) ==
    /\ pc[j] = "init"
    /\ \E ok \in BOOLEAN :
         IF ok
         THEN /\ pc' = [pc EXCEPT ![j] =
                          IF direction = "download" THEN "load" ELSE "ensure"]
              /\ UNCHANGED runErr
         ELSE ReturnErr(j, "init")
    /\ UNCHANGED <<config, listing, world, round, orch, state, objects, toTransfer,
                   progress, pool, history, previous, transfers>>

\* Upload.ensureBucketExists: HeadBucket, and CreateBucket on NotFound.
EnsureBucketExists(j) ==
    /\ pc[j] = "ensure"
    /\ \E ok \in BOOLEAN :
         IF ok
         THEN pc' = [pc EXCEPT ![j] = "load"] /\ UNCHANGED runErr
         ELSE ReturnErr(j, "ensure")
    /\ UNCHANGED <<config, listing, world, round, orch, state, objects, toTransfer,
                   progress, pool, history, previous, transfers>>

\* The step of Run that follows loadState.
AfterLoad == IF direction = "download" THEN "mkdir" ELSE "stat"

\* loadState returning the error of os.Open for a missing file as well.
LoadState_MissingIsError(j) ==
    /\ pc[j] = "load"
    /\ IF ~incremental
       THEN /\ pc' = [pc EXCEPT ![j] = AfterLoad]
            /\ UNCHANGED <<state, runErr, stateOpens>>
       ELSE /\ stateOpens' = [stateOpens EXCEPT ![j] = @ + 1]
            /\ CASE stateFile[StateFileId(j)].status \in {"missing", "corrupt"} ->
                      /\ ReturnErr(j, "load")
                      /\ UNCHANGED state
                 [] OTHER ->
                      \E ok \in BOOLEAN :
                        IF ok
                        THEN /\ state' = [state EXCEPT ![j] =
                                            JsonDecode(stateFile[StateFileId(j)].doc)]
                             /\ pc' = [pc EXCEPT ![j] = AfterLoad]
                             /\ UNCHANGED runErr
                        ELSE ReturnErr(j, "load") /\ UNCHANGED state
    /\ UNCHANGED <<config, listing, world, round, orch, objects, toTransfer, progress,
                   pool, startLog, filtered, stateCreates, previous, transfers>>

\* loadState taking a file it cannot decode for an empty state.
LoadState_CorruptIsEmpty(j) ==
    /\ pc[j] = "load"
    /\ IF ~incremental
       THEN /\ pc' = [pc EXCEPT ![j] = AfterLoad]
            /\ UNCHANGED <<state, runErr, stateOpens>>
       ELSE /\ stateOpens' = [stateOpens EXCEPT ![j] = @ + 1]
            /\ CASE stateFile[StateFileId(j)].status = "missing" ->
                      /\ pc' = [pc EXCEPT ![j] = AfterLoad]
                      /\ UNCHANGED <<state, runErr>>
                 [] stateFile[StateFileId(j)].status = "corrupt" ->
                      /\ pc' = [pc EXCEPT ![j] = AfterLoad]
                      /\ UNCHANGED <<state, runErr>>
                 [] OTHER ->
                      \* the open itself may fail for another reason
                      \E ok \in BOOLEAN :
                        IF ok
                        THEN /\ state' = [state EXCEPT ![j] =
                                            JsonDecode(stateFile[StateFileId(j)].doc)]
                             /\ pc' = [pc EXCEPT ![j] = AfterLoad]
                             /\ UNCHANGED runErr
                        ELSE ReturnErr(j, "load") /\ UNCHANGED state
    /\ UNCHANGED <<config, listing, world, round, orch, objects, toTransfer, progress,
                   pool, startLog, filtered, stateCreates, previous, transfers>>

\* loadState (the same code in both engines).
LoadState(j) ==
    /\ pc[j] = "load"
    /\ IF ~incremental
       THEN /\ pc' = [pc EXCEPT ![j] = AfterLoad]
            /\ UNCHANGED <<state, runErr, stateOpens>>
       ELSE /\ stateOpens' = [stateOpens EXCEPT ![j] = @ + 1]
            /\ CASE stateFile[StateFileId(j)].status = "missing" ->
                      /\ pc' = [pc EXCEPT ![j] = AfterLoad]
                      /\ UNCHANGED <<state, runErr>>
                 [] stateFile[StateFileId(j)].status = "corrupt" ->
                      /\ ReturnErr(j, "load")
                      /\ UNCHANGED state
                 [] OTHER ->
                      \* the open itself may fail for another reason
                      \E ok \in BOOLEAN :
                        IF ok
                        THEN /\ state' = [state EXCEPT ![j] =
                                            JsonDecode(stateFile[StateFileId(j)].doc)]
                             /\ pc' = [pc EXCEPT ![j] = AfterLoad]
                             /\ UNCHANGED runErr
                        ELSE ReturnErr(j, "load") /\ UNCHANGED state
    /\ UNCHANGED <<config, listing, world, round, orch, objects, toTransfer, progress,
                   pool, startLog, filtered, stateCreates, previous, transfers>>

\* Backup.Run: os.MkdirAll(OutputDir).
MkdirOutputDir(j) ==
    /\ pc[j] = "mkdir"
    /\ \E ok \in BOOLEAN :
         IF ok
         THEN pc' = [pc EXCEPT ![j] = "list"] /\ UNCHANGED runErr
         ELSE ReturnErr(j, "mkdir")
    /\ UNCHANGED <<config, listing, world, round, orch, state, objects, toTransfer,
                   progress, pool, history, previous, transfers>>

\* Upload.Run: os.Stat(InputDir).
StatInputDir(j) ==
    /\ pc[j] = "stat"
    /\ \E ok \in BOOLEAN :
         IF ok
         THEN pc' = [pc EXCEPT ![j] = "scan"] /\ UNCHANGED runErr
         ELSE ReturnErr(j, "stat")
    /\ UNCHANGED <<config, listing, world, round, orch, state, objects, toTransfer,
                   progress, pool, history, previous, transfers>>

\* listObjects whose error is kept while Run goes on to the diff with the
\* pages read so far.
ListObjects_PartialOnError(j) ==
    /\ pc[j] = "list"
    /\ \E ok \in BOOLEAN :
         /\ objects' = [objects EXCEPT ![j] =
                          IF ok THEN source[j]
                          ELSE SubSeq(source[j], 1, Len(source[j]) - 1)]
         /\ pc' = [pc EXCEPT ![j] = "filter"]
         /\ runErr' = [runErr EXCEPT ![j] = IF ok THEN @ ELSE "list"]
    /\ UNCHANGED <<config, listing, world, round, orch, state, toTransfer, progress,
                   pool, history, previous, transfers>>

\* Backup.listObjects: every page, or the first error.
ListObjects(j) ==
    /\ pc[j] = "list"
    /\ \E ok \in BOOLEAN :
         IF ok
         THEN /\ objects' = [objects EXCEPT ![j] = source[j]]
              /\ pc' = [pc EXCEPT ![j] = "filter"]
              /\ UNCHANGED runErr
         ELSE ReturnErr(j, "list") /\ UNCHANGED objects
    /\ UNCHANGED <<config, listing, world, round, orch, state, toTransfer, progress,
                   pool, history, previous, transfers>>

\* Upload.scanLocalFiles: filepath.Walk of InputDir.
ScanLocalFiles(j) ==
    /\ pc[j] = "scan"
    /\ \E ok \in BOOLEAN :
         IF ok
         THEN /\ objects' = [objects EXCEPT ![j] = source[j]]
              /\ pc' = [pc EXCEPT ![j] = "filter"]
              /\ UNCHANGED runErr
         ELSE ReturnErr(j, "scan") /\ UNCHANGED objects
    /\ UNCHANGED <<config, listing, world, round, orch, state, toTransfer, progress,
                   pool, history, previous, transfers>>

\* Sum of the sizes of the selected entries (Run's totalSize loop).
RECURSIVE TotalSize(_)
TotalSize(entries) ==
    IF entries = <<>> THEN 0 ELSE Head(entries).Size + TotalSize(Tail(entries))

\* len(units) of FormatSize: "KB", "MB", "GB", "TB", "PB".
UnitsLen == 5

\* The loop of FormatSize: for n := size / unit; n >= unit; n /= unit.
RECURSIVE FormatSizeExp(_, _)
FormatSizeExp(n, exp) ==
    IF n >= Unit THEN FormatSizeExp(n \div Unit, exp + 1) ELSE exp

\* FormatSize indexes units with exp: past the last unit the index is out
\* of range and the call panics.
FormatSizePanics(size) ==
    size >= Unit /\ FormatSizeExp(size \div Unit, 0) >= UnitsLen

\* Tracker.SetTotal without the call of FormatSize.
SetTotalPanics_Never(v, size) == FALSE

\* Tracker.SetTotal prints the total, formatted by FormatSize, when the
\* tracker is verbose.
SetTotalPanics(v, size) == v /\ FormatSizePanics(size)

\* A Run that goes on to updateState and saveState when nothing was
\* selected.
Selected_UpdatesAnyway(j, selection) ==
    /\ toTransfer' = [toTransfer EXCEPT ![j] = selection]
    /\ filtered' = [filtered EXCEPT ![j] = TRUE]
    /\ IF selection = <<>>
       THEN /\ pc' = [pc EXCEPT ![j] = "update"]
            /\ UNCHANGED <<progress, orchPc>>
       ELSE /\ progress' = [progress EXCEPT ![j] =
                  [@ EXCEPT !.totalFiles = Len(selection),
                            !.totalSize = TotalSize(selection)]]
            /\ IF SetTotalPanics(verbose[j], TotalSize(selection))
               THEN /\ pc' = [pc EXCEPT ![j] = "panicked"]
                    /\ orchPc' = "panicked"
               ELSE /\ pc' = [pc EXCEPT ![j] = "pool"]
                    /\ UNCHANGED orchPc
    /\ UNCHANGED <<config, listing, world, round, bucket, successCount, failureCount,
                   orchErr, state, objects, runErr, pool, startLog,
                   stateOpens, stateCreates, previous, transfers>>

\* Run after the diff: nothing selected returns nil at once; otherwise
\* progress.SetTotal and on to the pool.
Selected(j, selection) ==
    /\ toTransfer' = [toTransfer EXCEPT ![j] = selection]
    /\ filtered' = [filtered EXCEPT ![j] = TRUE]
    /\ IF selection = <<>>
       THEN /\ pc' = [pc EXCEPT ![j] = "ret"]
            /\ UNCHANGED <<progress, orchPc>>
       ELSE /\ progress' = [progress EXCEPT ![j] =
                  [@ EXCEPT !.totalFiles = Len(selection),
                            !.totalSize = TotalSize(selection)]]
            /\ IF SetTotalPanics(verbose[j], TotalSize(selection))
               THEN /\ pc' = [pc EXCEPT ![j] = "panicked"]
                    /\ orchPc' = "panicked"
               ELSE /\ pc' = [pc EXCEPT ![j] = "pool"]
                    /\ UNCHANGED orchPc
    /\ UNCHANGED <<config, listing, world, round, bucket, successCount, failureCount,
                   orchErr, state, objects, runErr, pool, startLog,
                   stateOpens, stateCreates, previous, transfers>>

\* Backup.Run: toDownload := b.filterObjects(objects)
FilterObjects(j) ==
    /\ pc[j] = "filter"
    /\ direction = "download"
    /\ Selected(j, filterObjects(incremental, state[j], dest[j], objects[j]))

\* Upload.Run: toUpload := u.filterFiles(files)
FilterFiles(j) ==
    /\ pc[j] = "filter"
    /\ direction = "upload"
    /\ Selected(j, filterFiles(incremental, state[j], objects[j]))

\* The steps of Run up to and including the diff.
Prepare(j) ==
    \/ InitS3Client(j)
    \/ EnsureBucketExists(j)
    \/ LoadState(j)
    \/ MkdirOutputDir(j)
    \/ StatInputDir(j)
    \/ ListObjects(j)
    \/ ScanLocalFiles(j)
    \/ FilterObjects(j)
    \/ FilterFiles(j)

\* What a completed transfer of `entry` leaves at the destination: a
\* directory for a container marker (os.MkdirAll), a file or object of the
\* entry's size otherwise.
DestEntry(entry) ==
    [IsDir |-> IsMarker(entry.Key, entry.Size), Size |-> entry.Size]

\* Where it leaves it: filepath.Join(OutputDir, key), or the object key.
DestName(entry) ==
    IF direction = "download" THEN LocalPath(entry.Key) ELSE entry.Key

\* --------------------------------- downloadObjects / uploadFiles: pool
\* A pool whose goroutines stop when Run returns.
PoolStarted_UntilReturn(j) ==
    /\ orchPc \notin {"panicked", "exited"}
    /\ toTransfer[j] # <<>>
    /\ pc[j] \in {"wait", "update", "save"}

\* The pool of job j exists: its goroutines run for as long as the process
\* does, whether or not Run has returned.
PoolStarted(j) ==
    /\ orchPc \notin {"panicked", "exited"}
    /\ toTransfer[j] # <<>>
    /\ pc[j] \in {"wait", "update", "save", "ret", "finished"}

\* The go loop running once more than Workers.
WorkerStarted_OneMore(n, w) == w <= n + 1

\* for i := 0; i < Workers; i++: whether the w-th worker is started.
WorkerStarted(n, w) == w <= n

\* make(chan, len(objects)), make(chan error, Workers), and the go
\* statements: Workers workers, the feeder and the closer.  A negative
\* Workers makes make(chan error, Workers) panic; nothing recovers, and the
\* process dies with all its goroutines.
StartWorkers(j) ==
    /\ pc[j] = "pool"
    /\ IF workers[j] < 0
       THEN /\ pc' = [pc EXCEPT ![j] = "panicked"]
            /\ orchPc' = "panicked"
            /\ UNCHANGED wpc
       ELSE /\ pc' = [pc EXCEPT ![j] = "wait"]
            /\ wpc' = [wpc EXCEPT ![j] =
                         [w \in WorkerIds |->
                            IF WorkerStarted(workers[j], w)
                            THEN "idle" ELSE "none"]]
            /\ UNCHANGED orchPc
    /\ UNCHANGED <<config, listing, world, round, bucket, successCount, failureCount,
                   orchErr, state, objects, toTransfer, runErr, progress,
                   objectChan, sent, chanClosed, errorChan, errorClosed,
                   wtask, history, previous, transfers>>

\* A feeder on an unbuffered task queue: the send waits for a worker that
\* is receiving.
FeederSend_Unbuffered(j) ==
    /\ PoolStarted(j)
    /\ sent[j] < Len(toTransfer[j])
    /\ objectChan[j] = <<>>
    /\ \E w \in WorkerIds : wpc[j][w] = "idle"
    /\ objectChan' = [objectChan EXCEPT ![j] =
                        Append(@, toTransfer[j][sent[j] + 1])]
    /\ sent' = [sent EXCEPT ![j] = @ + 1]
    /\ UNCHANGED <<config, listing, world, round, orch, pc, state, objects, toTransfer,
                   runErr, progress, chanClosed, errorChan, errorClosed, wpc,
                   wtask, history, previous, transfers>>

\* The feeder goroutine: objectChan <- obj.  The channel's capacity is
\* len(objects), so the send never blocks.
FeederSend(j) ==
    /\ PoolStarted(j)
    /\ sent[j] < Len(toTransfer[j])
    /\ Len(objectChan[j]) < Len(toTransfer[j])
    /\ objectChan' = [objectChan EXCEPT ![j] =
                        Append(@, toTransfer[j][sent[j] + 1])]
    /\ sent' = [sent EXCEPT ![j] = @ + 1]
    /\ UNCHANGED <<config, listing, world, round, orch, pc, state, objects, toTransfer,
                   runErr, progress, chanClosed, errorChan, errorClosed, wpc,
                   wtask, history, previous, transfers>>

\* The feeder goroutine: close(objectChan).
FeederClose(j) ==
    /\ PoolStarted(j)
    /\ sent[j] = Len(toTransfer[j])
    /\ ~chanClosed[j]
    /\ chanClosed' = [chanClosed EXCEPT ![j] = TRUE]
    /\ UNCHANGED <<config, listing, world, round, orch, pc, state, objects, toTransfer,
                   runErr, progress, objectChan, sent, errorChan, errorClosed,
                   wpc, wtask, history, previous, transfers>>

\* The workers run the same closure and differ in nothing but their place
\* in the go loop: of the workers blocked in the range at the same time, the
\* one that receives is taken to be the first, the one that sees the channel
\* closed the last (any other choice is a renaming of workers).
IdleWorkers(j) == {w \in WorkerIds : wpc[j][w] = "idle"}
FirstIdle(j, w) == \A v \in IdleWorkers(j) : w <= v
LastIdle(j, w) == \A v \in IdleWorkers(j) : v <= w

\* A receive that leaves the value in the channel.
Receive_Peek(q) == q

\* What a receive leaves in the channel: the value received is removed.
Receive(q) == Tail(q)

\* A worker: for obj := range objectChan, a task received.
WorkerRecv(j, w) ==
    /\ PoolStarted(j)
    /\ wpc[j][w] = "idle"
    /\ FirstIdle(j, w)
    /\ objectChan[j] # <<>>
    /\ wtask' = [wtask EXCEPT ![j][w] = <<Head(objectChan[j])>>]
    /\ objectChan' = [objectChan EXCEPT ![j] = Receive(@)]
    /\ wpc' = [wpc EXCEPT ![j][w] = "busy"]
    /\ handed' = [handed EXCEPT ![j] = Append(@, Head(objectChan[j]).Key)]
    /\ UNCHANGED <<config, listing, world, round, orch, pc, state, objects, toTransfer,
                   runErr, progress, sent, chanClosed, errorChan, errorClosed,
                   history, previous, completed, timeFailed>>

\* A worker: the range loop ends on the closed, drained channel; wg.Done.
WorkerExit(j, w) ==
    /\ PoolStarted(j)
    /\ wpc[j][w] = "idle"
    /\ LastIdle(j, w)
    /\ objectChan[j] = <<>>
    /\ chanClosed[j]
    /\ wpc' = [wpc EXCEPT ![j][w] = "done"]
    /\ UNCHANGED <<config, listing, world, round, orch, pc, state, objects, toTransfer,
                   runErr, progress, objectChan, sent, chanClosed, errorChan,
                   errorClosed, wtask, history, previous, transfers>>

\* Tracker.AddFile, under the tracker's mutex.
AddFile(t, size) ==
    [t EXCEPT !.currentFiles = @ + 1, !.currentSize = @ + size]

\* A worker that records the fingerprint of the transferred object in the
\* state as soon as its transfer returned nil.
WorkerSucceed_RecordsState(j, w) ==
    /\ PoolStarted(j)
    /\ wpc[j][w] = "busy"
    /\ LET task == wtask[j][w][1]
       IN  /\ dest' = [dest EXCEPT ![j] =
                         Put(@, DestName(task), DestEntry(task))]
           /\ progress' = [progress EXCEPT ![j] = AddFile(@, task.Size)]
           /\ completed' = [completed EXCEPT ![j] =
                               Put(@, task.Key, Count(@, task.Key) + 1)]
           /\ state' = [state EXCEPT ![j].Files =
                           Put(@, task.Key,
                               IF direction = "download"
                               THEN ObjectFileState(task)
                               ELSE LocalFileState(task))]
    /\ wpc' = [wpc EXCEPT ![j][w] = "idle"]
    /\ wtask' = [wtask EXCEPT ![j][w] = <<>>]
    /\ UNCHANGED <<config, listing, source, stateFile, now, round, orch, pc,
                   objects, toTransfer, runErr, objectChan, sent, chanClosed,
                   errorChan, errorClosed, history, previous, handed,
                   timeFailed>>

\* downloadObject / uploadFile returns nil: the directory or the file is at
\* the destination (a failed os.Chtimes is only logged), progress.AddFile.
WorkerSucceed(j, w) ==
    /\ PoolStarted(j)
    /\ wpc[j][w] = "busy"
    /\ LET task == wtask[j][w][1]
       IN  /\ dest' = [dest EXCEPT ![j] =
                         Put(@, DestName(task), DestEntry(task))]
           /\ progress' = [progress EXCEPT ![j] = AddFile(@, task.Size)]
           /\ completed' = [completed EXCEPT ![j] =
                               Put(@, task.Key, Count(@, task.Key) + 1)]
    /\ wpc' = [wpc EXCEPT ![j][w] = "idle"]
    /\ wtask' = [wtask EXCEPT ![j][w] = <<>>]
    /\ UNCHANGED <<config, listing, source, stateFile, now, round, orch, pc, state,
                   objects, toTransfer, runErr, objectChan, sent, chanClosed,
                   errorChan, errorClosed, history, previous, handed,
                   timeFailed>>

\* A worker that sends the error of a failed transfer and goes on with the
\* next task.
WorkerFail_KeepsGoing(j, w) ==
    /\ PoolStarted(j)
    /\ wpc[j][w] = "busy"
    /\ Len(errorChan[j]) < workers[j]
    /\ errorChan' = [errorChan EXCEPT ![j] = Append(@, wtask[j][w][1].Key)]
    /\ wpc' = [wpc EXCEPT ![j][w] = "idle"]
    /\ wtask' = [wtask EXCEPT ![j][w] = <<>>]
    /\ UNCHANGED <<config, listing, world, round, orch, pc, state, objects, toTransfer,
                   runErr, progress, objectChan, sent, chanClosed, errorClosed,
                   history, previous, transfers>>

\* An unbuffered error channel: the send of a worker's error waits for Run
\* to receive it.
WorkerFail_Unbuffered(j, w) ==
    /\ PoolStarted(j)
    /\ wpc[j][w] = "busy"
    /\ pc[j] = "wait"
    /\ errorChan[j] = <<>>
    /\ errorChan' = [errorChan EXCEPT ![j] = Append(@, wtask[j][w][1].Key)]
    /\ wpc' = [wpc EXCEPT ![j][w] = "done"]
    /\ wtask' = [wtask EXCEPT ![j][w] = <<>>]
    /\ UNCHANGED <<config, listing, world, round, orch, pc, state, objects, toTransfer,
                   runErr, progress, objectChan, sent, chanClosed, errorClosed,
                   history, previous, transfers>>

\* downloadObject / uploadFile returns an error: errorChan <- err, a send
\* that needs room in the channel of capacity Workers, then return
\* (wg.Done).  A download that fails after os.Create leaves a truncated
\* file behind.
WorkerFail(j, w) ==
    /\ PoolStarted(j)
    /\ wpc[j][w] = "busy"
    /\ Len(errorChan[j]) < workers[j]
    /\ LET task == wtask[j][w][1]
       IN  \E created \in BOOLEAN :
             IF /\ created
                /\ direction = "download"
                /\ ~(HasSuffix(task.Key, <<Slash>>) /\ task.Size = 0)
             THEN dest' = [dest EXCEPT ![j] =
                             Put(@, DestName(task),
                                 [IsDir |-> FALSE, Size |-> 0])]
             ELSE UNCHANGED dest
    /\ errorChan' = [errorChan EXCEPT ![j] = Append(@, wtask[j][w][1].Key)]
    /\ wpc' = [wpc EXCEPT ![j][w] = "done"]
    /\ wtask' = [wtask EXCEPT ![j][w] = <<>>]
    /\ UNCHANGED <<config, listing, source, stateFile, now, round, orch, pc, state,
                   objects, toTransfer, runErr, progress, objectChan, sent,
                   chanClosed, errorClosed, history, previous, transfers>>

\* A closer that closes errorChan without waiting for the workers.
CloserClose_NoWait(j) ==
    /\ PoolStarted(j)
    /\ ~errorClosed[j]
    /\ errorClosed' = [errorClosed EXCEPT ![j] = TRUE]
    /\ UNCHANGED <<config, listing, world, round, orch, pc, state, objects, toTransfer,
                   runErr, progress, objectChan, sent, chanClosed, errorChan,
                   wpc, wtask, history, previous, transfers>>

\* The closer goroutine: wg.Wait() returns, close(errorChan).
CloserClose(j) ==
    /\ PoolStarted(j)
    /\ ~errorClosed[j]
    /\ \A w \in WorkerIds : wpc[j][w] \in {"none", "done"}
    /\ errorClosed' = [errorClosed EXCEPT ![j] = TRUE]
    /\ UNCHANGED <<config, listing, world, round, orch, pc, state, objects, toTransfer,
                   runErr, progress, objectChan, sent, chanClosed, errorChan,
                   wpc, wtask, history, previous, transfers>>

\* for err := range errorChan: the first error received is returned.
RecvError(j) ==
    /\ pc[j] = "wait"
    /\ errorChan[j] # <<>>
    /\ errorChan' = [errorChan EXCEPT ![j] = Tail(@)]
    /\ ReturnErr(j, "transfer")
    /\ UNCHANGED <<config, listing, world, round, orch, state, objects, toTransfer,
                   progress, objectChan, sent, chanClosed, errorClosed, wpc,
                   wtask, history, previous, transfers>>

\* The range over errorChan ends on the closed, empty channel: nil.  Run
\* goes on to progress.PrintFinal, which formats currentSize by FormatSize.
RecvClosed(j) ==
    /\ pc[j] = "wait"
    /\ errorChan[j] = <<>>
    /\ errorClosed[j]
    /\ IF FormatSizePanics(progress[j].currentSize)
       THEN /\ pc' = [pc EXCEPT ![j] = "panicked"]
            /\ orchPc' = "panicked"
       ELSE /\ pc' = [pc EXCEPT ![j] = "update"]
            /\ UNCHANGED orchPc
    /\ UNCHANGED <<config, listing, world, round, bucket, successCount, failureCount,
                   orchErr, state, objects, toTransfer, runErr, progress,
                   pool, history, previous, transfers>>

\* An updateState that records the entries whose transfer completed.
UpdateState_CompletedOnly(j) ==
    /\ pc[j] = "update"
    /\ LET done(entries) ==
             SelectSeq(entries, LAMBDA e : e.Key \in DOMAIN completed[j])
       IN  state' = [state EXCEPT ![j] =
                       IF direction = "download"
                       THEN backupUpdateState(incremental, @,
                                              done(objects[j]))
                       ELSE uploadUpdateState(incremental, @,
                                              done(toTransfer[j]))]
    /\ pc' = [pc EXCEPT ![j] = "save"]
    /\ UNCHANGED <<config, listing, world, round, orch, objects, toTransfer, runErr,
                   progress, pool, history, previous, transfers>>

\* ------------------------------------------------- Run: after the pool
\* Run: b.updateState(objects) / u.updateState(toUpload).
UpdateState(j) ==
    /\ pc[j] = "update"
    /\ state' = [state EXCEPT ![j] =
                   IF direction = "download"
                   THEN backupUpdateState(incremental, @, objects[j])
                   ELSE uploadUpdateState(incremental, @, toTransfer[j])]
    /\ pc' = [pc EXCEPT ![j] = "save"]
    /\ UNCHANGED <<config, listing, world, round, orch, objects, toTransfer, runErr,
                   progress, pool, history, previous, transfers>>

\* saveState without its first test.
saveStateWrites_Always(incr) == TRUE

\* Whether saveState goes on to write the file.
saveStateWrites(incr) == incr

\* saveState: nothing when not incremental; otherwise LastBackup = now,
\* os.Create (which truncates) and Encode.  Create may fail, leaving the file
\* as it was; Encode may fail, leaving a truncated file.
SaveState(j) ==
    /\ pc[j] = "save"
    /\ IF ~saveStateWrites(incremental)
       THEN /\ pc' = [pc EXCEPT ![j] = "ret"]
            /\ UNCHANGED <<state, stateFile, now, runErr, stateCreates>>
       ELSE /\ state' = [state EXCEPT ![j].Last = now]
            /\ now' = now + 1
            /\ stateCreates' = [stateCreates EXCEPT ![j] = @ + 1]
            /\ \E outcome \in {"ok", "create", "encode"} :
                 CASE outcome = "ok" ->
                        /\ stateFile' = [stateFile EXCEPT ![StateFileId(j)] =
                                           FileOf(state'[j])]
                        /\ pc' = [pc EXCEPT ![j] = "ret"]
                        /\ UNCHANGED runErr
                   [] outcome = "create" ->
                        /\ ReturnErr(j, "save")
                        /\ UNCHANGED stateFile
                   [] OTHER ->
                        /\ ReturnErr(j, "save")
                        /\ stateFile' = [stateFile EXCEPT ![StateFileId(j)] =
                                           CorruptFile]
    /\ UNCHANGED <<config, listing, source, dest, round, orch, objects, toTransfer,
                   progress, pool, startLog, filtered, stateOpens,
                   previous, transfers>>

\* Every step of job j and of its goroutines.
JobStep(j) ==
    \/ Prepare(j)
    \/ StartWorkers(j)
    \/ FeederSend(j)
    \/ FeederClose(j)
    \/ \E w \in WorkerIds : WorkerRecv(j, w)
    \/ \E w \in WorkerIds : WorkerExit(j, w)
    \/ \E w \in WorkerIds : WorkerSucceed(j, w)
    \/ \E w \in WorkerIds : WorkerFail(j, w)
    \/ CloserClose(j)
    \/ RecvError(j)
    \/ RecvClosed(j)
    \/ UpdateState(j)
    \/ SaveState(j)

\* ------------------------------------------------------- orchestrator
\* The loop left at the first failed job.
NextBucketAfterFailure_Break(i, n) == n + 1

\* What the loop does with a job whose Run returned an error: count it and
\* go on with the next bucket.
NextBucketAfterFailure(i, n) == i + 1

\* A failed job counted as a success as well.
CountResult_BothOnFailure(failed, success, failure) ==
    IF failed THEN <<success + 1, failure + 1>> ELSE <<success + 1, failure>>

\* The counters after Run returned.
CountResult(failed, success, failure) ==
    IF failed THEN <<success, failure + 1>> ELSE <<success + 1, failure>>

\* runBucketsBackup / runUpload: Run of bucket i has returned.
OrchJobReturned ==
    /\ orchPc = "loop"
    /\ bucket <= njobs
    /\ pc[bucket] = "ret"
    /\ LET failed == runErr[bucket] # "none"
           counts == CountResult(failed, successCount, failureCount)
       IN  /\ successCount' = counts[1]
           /\ failureCount' = counts[2]
           /\ bucket' = IF failed THEN NextBucketAfterFailure(bucket, njobs)
                        ELSE bucket + 1
    /\ pc' = [pc EXCEPT ![bucket] = "finished"]
    /\ UNCHANGED <<config, listing, world, round, orchPc, orchErr, state, objects,
                   toTransfer, runErr, progress, pool, history, previous, transfers>>

\* Whether the orchestrator returns an error.
OrchResult(success, failure) == failure > 0

\* The loop is over: the summary, and the aggregate error if a job failed.
OrchReturn ==
    /\ orchPc = "loop"
    /\ bucket > njobs
    /\ orchErr' = OrchResult(successCount, failureCount)
    /\ orchPc' = "done"
    /\ UNCHANGED <<config, listing, world, round, bucket, successCount, failureCount,
                   pc, state, objects, toTransfer, runErr, progress, pool,
                   history, previous, transfers>>

\* ------------------------------------------------ sample worlds of a run
ObjA == [Key |-> <<"a">>, ETag |-> <<Quote, "1", Quote>>,
         LastModified |-> 1, Size |-> 1]
ObjDir == [Key |-> <<"d", Slash>>, ETag |-> <<Quote, "0", Quote>>,
           LastModified |-> 1, Size |-> 0]
ObjNoKey == [Key |-> <<>>, ETag |-> <<Quote, "0", Quote>>,
             LastModified |-> 1, Size |-> 0]
FileA == [Key |-> <<"a">>, Size |-> 1, LastModified |-> 1, IsDir |-> FALSE]
FileDir == [Key |-> <<"d", Slash>>, Size |-> 0, LastModified |-> 1,
            IsDir |-> TRUE]

\* The worlds a job can start in.  Only the first holds two entries, so that
\* at most one job of a run has two transfers in flight at once.
\*   1: nothing transferred yet, no state file;
\*   2: everything in place and recorded;
\*   3: everything in place, "a" changed at the source since the record
\*      (and, in a listing, an entry with an empty key), and the record
\*      still holds a key that is no longer at the source;
\*   4: a state file that cannot be decoded;
\*   5: a directory already in place (made by a full run or by hand), no
\*      state file.
SampleSources(dir) ==
    IF dir = "download"
    THEN << <<ObjA, ObjDir>>, <<ObjA>>, <<ObjNoKey, ObjA>>, <<ObjDir>>,
            <<ObjDir>> >>
    ELSE << <<FileA, FileDir>>, <<FileA>>, <<FileA>>, <<FileDir>>,
            <<FileDir>> >>

\* A destination holding everything of the source.
RECURSIVE FullDest(_, _)
FullDest(dir, entries) ==
    IF entries = <<>> THEN EmptyMap
    ELSE LET e == Head(entries)
             rest == FullDest(dir, Tail(entries))
         IN  IF e.Key = <<>> THEN rest
             ELSE Put(rest, IF dir = "download" THEN LocalPath(e.Key) ELSE e.Key,
                      DestEntry(e))

\* The state an earlier successful run of the engine left for the source.
SyncedState(dir, entries) ==
    IF dir = "download"
    THEN [Last |-> 0, Files |-> backupUpdateFiles(EmptyMap, entries)]
    ELSE [Last |-> 0, Files |-> uploadUpdateFiles(EmptyMap, entries)]

\* A key an earlier run recorded and the source no longer lists.
GoneKey == <<"z">>

\* The state of an earlier run in which "a" had another modification time
\* and the source still held GoneKey.
StaleState(dir, entries) ==
    LET st == SyncedState(dir, entries)
        files == [st.Files EXCEPT ![<<"a">>].LastModified = 0]
    IN  [st EXCEPT !.Files =
            Put(files, GoneKey,
                FileState(IF dir = "download" THEN <<"1">> ELSE <<>>, 0, 1))]

SampleWorlds(dir) ==
    << [source |-> SampleSources(dir)[1], dest |-> EmptyMap,
        stateFile |-> NoFile],
       [source |-> SampleSources(dir)[2],
        dest |-> FullDest(dir, SampleSources(dir)[2]),
        stateFile |-> FileOf(SyncedState(dir, SampleSources(dir)[2]))],
       [source |-> SampleSources(dir)[3],
        dest |-> FullDest(dir, SampleSources(dir)[3]),
        stateFile |-> FileOf(StaleState(dir, SampleSources(dir)[3]))],
       [source |-> SampleSources(dir)[4], dest |-> EmptyMap,
        stateFile |-> CorruptFile],
       [source |-> SampleSources(dir)[5],
        dest |-> FullDest(dir, SampleSources(dir)[5]),
        stateFile |-> NoFile] >>

NumWorlds == Len(SampleWorlds("download"))

\* Job j's world when the first job starts in world `first`.
WorldOf(dir, first, j) == SampleWorlds(dir)[((first + j - 2) % NumWorlds) + 1]

InitWorld ==
    /\ direction \in {"download", "upload"}
    /\ incremental \in BOOLEAN
    /\ \E w \in -1..MaxWorkers : workers = [j \in Jobs |-> w]
    /\ buckets = DefaultBuckets
    /\ verbose = [j \in Jobs |-> FALSE]
    /\ pageSize = MaxPage
    /\ \E first \in 1..NumWorlds :
         /\ source = [j \in Jobs |-> WorldOf(direction, first, j).source]
         /\ dest = [j \in Jobs |-> WorldOf(direction, first, j).dest]
         /\ stateFile = [j \in Jobs |-> WorldOf(direction, first, j).stateFile]
    /\ now = 1
    /\ round = 1
    /\ InitPrevious

\* One invocation of the program over MaxJobs buckets.
Init == InitWorld /\ njobs = MaxJobs /\ InitProcess

Next ==
    \/ OrchStartJob
    \/ \E j \in Jobs : JobStep(j)
    \/ OrchJobReturned
    \/ OrchReturn

Spec == Init /\ [][Next]_vars

\* ------------------------------------------ invocation after invocation
\* An entry of the source changed between two invocations: new content,
\* hence another tag (of an object), modification time and size.
Touch(entry) ==
    IF "ETag" \in DOMAIN entry
    THEN [entry EXCEPT !.ETag = <<Quote, "2", Quote>>,
                       !.LastModified = @ + 1, !.Size = @ + 1]
    ELSE [entry EXCEPT !.LastModified = @ + 1, !.Size = @ + 1]

\* The source as the next invocation may find it: as it was, or with one
\* regular entry changed.
SourceChanges(src) ==
    {src} \cup {[src EXCEPT ![n] = Touch(src[n])] :
                  n \in {m \in DOMAIN src :
                            /\ src[m].Key # <<>>
                            /\ ~IsMarker(src[m].Key, src[m].Size)}}

\* The process ends (main returns or calls os.Exit, and every goroutine
\* still running is gone) and the program is started again on the world the
\* previous invocation left.
Reinvoke ==
    /\ orchPc \in {"done", "panicked"}
    /\ round < MaxRounds
    /\ round' = round + 1
    /\ prevOk' = [j \in Jobs |-> pc[j] = "finished" /\ runErr[j] = "none"]
    /\ prevErr' = runErr
    /\ prevSource' = source
    /\ prevDone' = [j \in Jobs |-> DOMAIN completed[j]]
    /\ \E changed \in [Jobs -> UNION {SourceChanges(source[j]) : j \in Jobs}] :
         /\ \A j \in Jobs :
               changed[j] \in (IF j <= njobs THEN SourceChanges(source[j])
                               ELSE {source[j]})
         /\ source' = changed
    /\ stateFile0' = stateFile
    /\ handed' = [j \in Jobs |-> <<>>]
    /\ completed' = [j \in Jobs |-> EmptyMap]
    /\ timeFailed' = [j \in Jobs |-> {}]
    /\ orchPc' = "loop"
    /\ bucket' = 1
    /\ successCount' = 0
    /\ failureCount' = 0
    /\ orchErr' = FALSE
    /\ pc' = [j \in Jobs |-> "new"]
    /\ state' = [j \in Jobs |-> NewState]
    /\ objects' = [j \in Jobs |-> <<>>]
    /\ toTransfer' = [j \in Jobs |-> <<>>]
    /\ runErr' = [j \in Jobs |-> "none"]
    /\ progress' = [j \in Jobs |-> NewTracker]
    /\ objectChan' = [j \in Jobs |-> <<>>]
    /\ sent' = [j \in Jobs |-> 0]
    /\ chanClosed' = [j \in Jobs |-> FALSE]
    /\ errorChan' = [j \in Jobs |-> <<>>]
    /\ errorClosed' = [j \in Jobs |-> FALSE]
    /\ wpc' = [j \in Jobs |-> [w \in WorkerIds |-> "none"]]
    /\ wtask' = [j \in Jobs |-> [w \in WorkerIds |-> <<>>]]
    /\ startLog' = <<>>
    /\ filtered' = [j \in Jobs |-> FALSE]
    /\ stateOpens' = [j \in Jobs |-> 0]
    /\ stateCreates' = [j \in Jobs |-> 0]
    /\ UNCHANGED <<config, listing, dest, stateFile, now>>

\* One bucket, run again and again; between two invocations the source may
\* change, and nothing but the program changes the destination or the state
\* file.
InitRuns == InitWorld /\ njobs = 1 /\ InitProcess

NextRuns == Next \/ Reinvoke

SpecRuns == InitRuns /\ [][NextRuns]_vars

\* One invocation of the command on one bucket.
SpecBucket == InitRuns /\ [][Next]_vars

\* C1: idempotence.  In an incremental job whose previous run returned nil,
\* with the source and the destination untouched in between, the diff
\* selects nothing.
C1_Idempotence ==
    \A j \in Jobs :
        (/\ round > 1
         /\ prevOk[j]
         /\ source[j] = prevSource[j]
         /\ incremental
         /\ filtered[j])
        => toTransfer[j] = <<>>

\* ------------------------------------------------ the orchestrator's run
\* C7: with incremental off the state store is disabled: the state file is
\* never opened, never created or written (no os.Create, and the file
\* carries no time stamp of a save), and the in-memory state stays the empty
\* state of New(), whether the run succeeds or fails.
C7_StateStoreDisabled ==
    ~incremental =>
        \A j \in Jobs :
            /\ stateOpens[j] = 0
            /\ stateCreates[j] = 0
            /\ state[j] = NewState
            /\ stateFile[j].doc.last = 0

C7_Witness ==
    /\ ~incremental
    /\ orchPc = "done"
    /\ \E j \in Jobs :
         /\ runErr[j] = "none"
         /\ toTransfer[j] # <<>>
         /\ stateFile[j].status = "ok"
    /\ \E j \in Jobs : runErr[j] = "transfer"

\* C8: job isolation.  The jobs are started one by one in configuration
\* order, each once, and when the orchestrator's run is over every
\* configured job has been started, whatever happened to an earlier job.
C8_JobIsolation ==
    /\ \A n \in DOMAIN startLog : startLog[n] = n
    /\ Len(startLog) <= njobs
    /\ orchPc # "loop" => Len(startLog) = njobs
    /\ \A j \in Jobs : pc[j] # "new" <=> j \in Range(startLog)

\* C8 for the runs in which no job has a negative worker count: a job whose
\* Run returns an error, at whatever step, stops no later job.
C8_ErrorsIsolated ==
    (\A j \in Jobs : workers[j] >= 0) => C8_JobIsolation

C8_ErrorsIsolated_Witness ==
    /\ orchPc = "done"
    /\ runErr[1] = "transfer"
    /\ startLog = <<1, 2>>
    /\ pc[2] = "finished"
    /\ runErr[2] = "none"

\* C9: accounting.  When the orchestrator returns, failureCount is the number
\* of jobs whose Run returned an error, successCount the number whose Run
\* returned nil, together the number of configured jobs, and the
\* orchestrator returns an error exactly when failureCount > 0.
C9_Accounting ==
    orchPc = "done" =>
        /\ failureCount = Cardinality({j \in 1..njobs : runErr[j] # "none"})
        /\ successCount = Cardinality({j \in 1..njobs : runErr[j] = "none"})
        /\ successCount + failureCount = njobs
        /\ orchErr <=> failureCount > 0

C9_Witness ==
    /\ orchPc = "done"
    /\ failureCount = 1
    /\ successCount = 1
    /\ orchErr

\* C10: jobs are strictly sequential.  Once a job has been started, no
\* worker of an earlier job is still transferring an object.
C10_Sequential ==
    \A i \in Jobs : \A j \in Jobs :
        (i < j /\ pc[j] # "new")
        => \A w \in WorkerIds : wpc[i][w] # "busy"

\* ------------------------------------------------------ the worker pool
Busy(j) == {w \in WorkerIds : wpc[j][w] = "busy"}

\* C11: bounded worker pool.  With workerCount = W at most W transfers of a
\* job are in progress at any time (none when W is negative: the pool is
\* never built), and a worker has a task in hand exactly while it transfers,
\* one task at most.
C11_BoundedPool ==
    \A j \in Jobs :
        /\ Cardinality(Busy(j)) <= (IF workers[j] < 0 THEN 0 ELSE workers[j])
        /\ \A w \in WorkerIds :
              /\ Len(wtask[j][w]) <= 1
              /\ wpc[j][w] = "busy" <=> Len(wtask[j][w]) = 1

C11_Witness ==
    /\ workers[1] = 2
    /\ Len(toTransfer[1]) = 2
    /\ Cardinality(Busy(1)) = 2
    /\ wtask[1][1] # wtask[1][2]

Keys(entries) == [n \in DOMAIN entries |-> entries[n].Key]

Occurrences(seq, k) == Cardinality({n \in DOMAIN seq : seq[n] = k})

\* No task of job j has been received by two workers or transferred twice.
AtMostOnce(j) ==
    /\ \A n \in DOMAIN handed[j] : Occurrences(handed[j], handed[j][n]) = 1
    /\ Range(handed[j]) \subseteq Range(Keys(toTransfer[j]))
    /\ \A k \in DOMAIN completed[j] :
          completed[j][k] = 1 /\ k \in Range(handed[j])

\* The pool of job j has run and every worker has left its loop.
PoolOver(j) ==
    /\ PoolStarted(j)
    /\ \A w \in WorkerIds : wpc[j][w] \in {"none", "done"}

\* downloadObjects / uploadFiles of job j returned nil.
SchedulerReturnedNil(j) ==
    /\ toTransfer[j] # <<>>
    /\ pc[j] \in {"update", "save", "ret", "finished"}
    /\ runErr[j] \in {"none", "save"}

\* C12 as stated: no task is handed to two workers or transferred twice, and
\* every task is handed to some worker: once the workers have left their
\* loops, every task has been received.
C12_Original ==
    \A j \in Jobs :
        /\ AtMostOnce(j)
        /\ PoolOver(j) => Range(handed[j]) = Range(Keys(toTransfer[j]))

\* C12 amended: no task is handed to two workers or transferred twice; when
\* the scheduler returns nil with workerCount >= 1 every task has been
\* handed to a worker, in queue order, and transferred once; with
\* workerCount = 0 it returns nil and no task has been handed to anyone.  (A
\* worker whose transfer fails stops receiving, so that after an error
\* tasks may stay in the queue for ever.)
C12_ConsumedOnce ==
    \A j \in Jobs :
        /\ AtMostOnce(j)
        /\ SchedulerReturnedNil(j) =>
              IF workers[j] = 0
              THEN handed[j] = <<>> /\ completed[j] = EmptyMap
              ELSE /\ handed[j] = Keys(toTransfer[j])
                   /\ DOMAIN completed[j] = Range(Keys(toTransfer[j]))

C12_Witness ==
    /\ workers[1] = 2
    /\ Len(toTransfer[1]) = 2
    /\ SchedulerReturnedNil(1)
    /\ handed[1] = Keys(toTransfer[1])
    /\ \A k \in Range(handed[1]) : Count(completed[1], k) = 1

\* ------------------------------------------- the diff on its own inputs
\* One job, one or two catalog entries, every recorded fingerprint and both
\* answers of the destination probe; the run stops after the diff.
DiffTimes == {1, 2}
DiffSizes == {0, 1}
DiffKeys == {<<>>, <<"a">>, <<"d", Slash>>}
\* ETags as the store reports them, quoted.
DiffETags == {<<Quote, "1", Quote>>, <<Quote, "2", Quote>>}

\* s3.Object values of a listing.
DiffObjects ==
    [Key : DiffKeys, ETag : DiffETags, LastModified : DiffTimes,
     Size : DiffSizes]

\* LocalFile values of a tree walk: a directory has a key ending in "/" and
\* size 0 (scanLocalFiles), and no key is empty.
DiffLocalFiles ==
    {[Key |-> <<"a">>, Size |-> sz, LastModified |-> t, IsDir |-> FALSE] :
        sz \in DiffSizes, t \in DiffTimes}
    \cup
    {[Key |-> <<"d", Slash>>, Size |-> 0, LastModified |-> t, IsDir |-> TRUE] :
        t \in DiffTimes}

\* The fingerprints a state file written by either engine can hold.
DiffFileStates ==
    [ETag : {<<>>, <<"1">>, <<"2">>}, LastModified : DiffTimes,
     Size : DiffSizes]

\* State files for a catalog holding `key`: none, unreadable, no record of
\* the key, or a record of it.  No engine ever records the empty key.
DiffStateFiles(key) ==
    {NoFile, CorruptFile, FileOf(NewState)}
    \cup
    (IF key = <<>> THEN {}
     ELSE {FileOf([Last |-> 1, Files |-> Put(EmptyMap, key, st)]) :
              st \in DiffFileStates})

InitDiff ==
    /\ direction \in {"download", "upload"}
    /\ incremental \in BOOLEAN
    /\ njobs = 1
    /\ workers = [j \in Jobs |-> 1]
    /\ buckets = DefaultBuckets
    /\ verbose = [j \in Jobs |-> FALSE]
    /\ pageSize = MaxPage
    /\ now = 1
    /\ round = 1
    /\ \E entry \in (IF direction = "download" THEN DiffObjects
                     ELSE DiffLocalFiles) :
         /\ source = [j \in Jobs |-> IF j = 1 THEN <<entry>> ELSE <<>>]
         /\ \E present \in BOOLEAN :
              dest = [j \in Jobs |->
                        IF j = 1 /\ present /\ entry.Key # <<>>
                        THEN Put(EmptyMap, DestName(entry), DestEntry(entry))
                        ELSE EmptyMap]
         /\ \E file \in DiffStateFiles(entry.Key) :
              stateFile = [j \in Jobs |-> IF j = 1 THEN file ELSE NoFile]
    /\ InitPrevious
    /\ InitProcess

NextDiff == OrchStartJob \/ \E j \in Jobs : Prepare(j)

SpecDiff == InitDiff /\ [][NextDiff]_vars

\* ------------------------------------------------- reading a diff result
\* Entry n of job j's catalog was selected for transfer.
IsSelected(j, n) == objects[j][n] \in Range(toTransfer[j])

\* The fingerprint the engine derives for a catalog entry.
Fingerprint(entry) ==
    IF direction = "download" THEN ObjectFileState(entry)
    ELSE LocalFileState(entry)

\* The destination probe: local file or directory (download), remote object
\* (upload).
DestExists(j, entry) ==
    IF direction = "download" THEN Exists(dest[j], LocalPath(entry.Key))
    ELSE entry.Key \in DOMAIN dest[j]

Recorded(j, entry) == entry.Key \in DOMAIN state[j].Files

RecordOf(j, entry) == state[j].Files[entry.Key]

\* The recorded fingerprint differs from the current one in exactly the
\* field named.
DiffersOnlyIn(j, entry, field) ==
    /\ Recorded(j, entry)
    /\ \A f \in {"ETag", "LastModified", "Size"} :
          (RecordOf(j, entry)[f] # Fingerprint(entry)[f]) <=> (f = field)

\* Job j has run its diff in incremental mode.
DiffDone(j) == filtered[j] /\ incremental

Entries(j) == DOMAIN objects[j]

\* C2 as stated: in an incremental job an entry whose recorded fingerprint
\* equals its current fingerprint is not selected.
C2_Original ==
    \A j \in Jobs : DiffDone(j) =>
        \A n \in Entries(j) :
            (Recorded(j, objects[j][n])
                /\ RecordOf(j, objects[j][n]) = Fingerprint(objects[j][n]))
            => ~IsSelected(j, n)

\* C2 amended: in an incremental job an entry whose recorded fingerprint
\* equals its current fingerprint is not selected, provided that, in a
\* download job, its local file or directory exists.
C2_EqualNotSelected ==
    \A j \in Jobs : DiffDone(j) =>
        \A n \in Entries(j) :
            (/\ Recorded(j, objects[j][n])
             /\ RecordOf(j, objects[j][n]) = Fingerprint(objects[j][n])
             /\ (direction = "download" => DestExists(j, objects[j][n])))
            => ~IsSelected(j, n)

C2_Witness ==
    /\ DiffDone(1)
    /\ direction = "download"
    /\ Len(objects[1]) = 1
    /\ ~IsMarker(objects[1][1].Key, objects[1][1].Size)
    /\ Recorded(1, objects[1][1])
    /\ RecordOf(1, objects[1][1]) = Fingerprint(objects[1][1])
    /\ DestExists(1, objects[1][1])
    /\ toTransfer[1] = <<>>

C6_FullSelectsAll ==
    \A j \in Jobs : (filtered[j] /\ ~incremental) =>
        \A n \in Entries(j) : objects[j][n].Key # <<>> => IsSelected(j, n)

C6_Witness ==
    /\ filtered[1]
    /\ ~incremental
    /\ Len(objects[1]) = 1
    /\ DestExists(1, objects[1][1])
    /\ stateFile[1].status = "ok"
    /\ objects[1][1].Key \in DOMAIN stateFile[1].doc.files
    /\ JsonDecode(stateFile[1].doc).Files[objects[1][1].Key]
          = Fingerprint(objects[1][1])
    /\ toTransfer[1] = objects[1]

\* --------------------------------------------------- the persisted state
\* What a later load of job j's state file would yield.
Persisted(j) ==
    IF stateFile[j].status = "ok" THEN JsonDecode(stateFile[j].doc)
    ELSE NewState

\* Run of job j, incremental, got as far as the diff and returned nil.
Succeeded(j) ==
    /\ incremental
    /\ filtered[j]
    /\ pc[j] \in {"ret", "finished"}
    /\ runErr[j] = "none"

\* The persisted state holds for `entry` the fingerprint of the catalog.
PersistedAs(j, entry) ==
    /\ entry.Key \in DOMAIN Persisted(j).Files
    /\ Persisted(j).Files[entry.Key] = Fingerprint(entry)

\* The same, as far as an upload job observes a fingerprint: modification
\* time and size.
PersistedLike(j, entry) ==
    /\ entry.Key \in DOMAIN Persisted(j).Files
    /\ IF direction = "download"
       THEN Persisted(j).Files[entry.Key] = Fingerprint(entry)
       ELSE /\ Persisted(j).Files[entry.Key].LastModified = entry.LastModified
            /\ Persisted(j).Files[entry.Key].Size = entry.Size

C14_Converges ==
    \A j \in Jobs :
        (Succeeded(j) /\ stateCreates[j] > 0)
        => DOMAIN Persisted(j).Files = Range(Keys(objects[j])) \ {<<>>}

\* Run of job j returned an error from a step before saveState.
FailedBeforeSave(j) ==
    /\ pc[j] \in {"ret", "finished"}
    /\ runErr[j] \in {"init", "ensure", "load", "mkdir", "stat", "list",
                       "scan", "transfer"}

\* C15: a run that returns an error from client setup, enumeration or a
\* transfer leaves the state file exactly as it found it; saveState is
\* called at most once per run, and only after the scheduler returned nil;
\* nothing else writes the file.
C15_FailedRunKeepsState ==
    \A j \in Jobs :
        /\ stateCreates[j] <= 1
        /\ stateCreates[j] = 1 => (incremental /\ SchedulerReturnedNil(j))
        /\ stateCreates[j] = 0 => stateFile[j] = stateFile0[j]
        /\ FailedBeforeSave(j) =>
              (stateCreates[j] = 0 /\ stateFile[j] = stateFile0[j])

C15_Witness ==
    /\ incremental
    /\ FailedBeforeSave(1)
    /\ runErr[1] = "transfer"
    /\ completed[1] # EmptyMap
    /\ FailedBeforeSave(2)
    /\ runErr[2] = "list"
    /\ stateFile[2].status = "ok"
    /\ stateFile = stateFile0

\* The destination holds what the catalog entry describes, in its size.
AtDestination(j, entry) ==
    /\ DestName(entry) \in DOMAIN dest[j]
    /\ dest[j][DestName(entry)].Size = entry.Size

\* C16: completeness.  When Run of a non-incremental job returns nil, every
\* catalog entry (entries with an empty key, which the engine skips, aside)
\* has its object at the destination, in the size of the catalog, whatever
\* the worker count.
C16_Complete ==
    \A j \in Jobs :
        (/\ ~incremental
         /\ filtered[j]
         /\ pc[j] \in {"ret", "finished"}
         /\ runErr[j] = "none")
        => \A n \in Entries(j) :
              objects[j][n].Key # <<>> => AtDestination(j, objects[j][n])

\* C16 for the worker counts of at least one.
C16_CompleteWithWorkers ==
    (\A j \in Jobs : workers[j] >= 1) => C16_Complete

\* The entries of job j's source that are not what the previous invocation
\* found at their place.
Changed(j) ==
    {source[j][m] : m \in {i \in DOMAIN source[j] :
                              \/ i \notin DOMAIN prevSource[j]
                              \/ source[j][i] # prevSource[j][i]}}

\* C17: selective re-transfer.  After an incremental run that returned nil,
\* with one regular object changed at the source and nothing else touched,
\* the diff of the next run selects that object and no other entry.
C17_Selective ==
    \A j \in Jobs :
        (/\ round > 1
         /\ prevOk[j]
         /\ DiffDone(j)
         /\ Changed(j) # {})
        => Range(toTransfer[j]) = Changed(j)

\* C17 for the worker counts of at least one.
C17_SelectiveWithWorkers ==
    (\A j \in Jobs : workers[j] >= 1) => C17_Selective

\* C18: resumable transfer.  In the incremental run that follows a run ended
\* by a transfer error, with the source unchanged, no object whose transfer
\* completed in the failed run is selected again.
C18_Resumes ==
    \A j \in Jobs :
        (/\ round > 1
         /\ prevErr[j] = "transfer"
         /\ DiffDone(j)
         /\ source[j] = prevSource[j])
        => \A n \in Entries(j) :
              objects[j][n].Key \in prevDone[j] => ~IsSelected(j, n)

\* C18 for the worker counts of at least one.
C18_ResumesWithWorkers ==
    (\A j \in Jobs : workers[j] >= 1) => C18_Resumes

\* Job j, incremental, has been through loadState and its state file does
\* not exist.
LoadedMissing(j) ==
    incremental /\ stateOpens[j] >= 1 /\ stateFile[j].status = "missing"

\* C19: an incremental job whose state file does not exist gets no error
\* from loadState and an empty state, and its diff selects every regular
\* catalog entry with a non-empty key.
C19_MissingStateIsEmpty ==
    \A j \in Jobs : LoadedMissing(j) =>
        /\ runErr[j] # "load"
        /\ state[j] = NewState
        /\ filtered[j] =>
              \A n \in Entries(j) :
                  (/\ objects[j][n].Key # <<>>
                   /\ ~IsMarker(objects[j][n].Key, objects[j][n].Size))
                  => IsSelected(j, n)

\* C19 witness: the diff ran on a missing state file and selected a regular
\* entry whose destination is in place.
C19_Witness ==
    /\ LoadedMissing(1)
    /\ filtered[1]
    /\ state[1] = NewState
    /\ \E n \in Entries(1) :
          /\ ~IsMarker(objects[1][n].Key, objects[1][n].Size)
          /\ DestExists(1, objects[1][n])
          /\ IsSelected(1, n)

\* ------------------------------------------------- state file round trip
\* Keys a catalog can hold.  A local file name is any byte string, so the
\* key of an upload may hold a byte that is not valid UTF-8; the keys of a
\* bucket listing come out of an XML document and are valid UTF-8.
JsonKeys(dir) ==
    IF dir = "upload"
    THEN {<<"a">>, <<"a", InvalidByte>>, <<"a", ReplacementChar>>}
    ELSE {<<"a">>, <<"a", ReplacementChar>>}

\* The catalog entry of key k in the direction dir.
JsonEntry(dir, k) ==
    IF dir = "upload" THEN [FileA EXCEPT !.Key = k]
    ELSE [ObjA EXCEPT !.Key = k]

\* Catalogs of one entry or of two entries of different keys.
JsonCatalogs(dir) ==
    {<<JsonEntry(dir, k)>> : k \in JsonKeys(dir)}
    \cup
    {<<JsonEntry(dir, k[1]), JsonEntry(dir, k[2])>> :
        k \in {p \in JsonKeys(dir) \X JsonKeys(dir) : p[1] # p[2]}}

\* One incremental job on a fresh destination, with no state file.
InitJson ==
    /\ direction \in {"download", "upload"}
    /\ incremental = TRUE
    /\ njobs = 1
    /\ \E w \in 0..1 : workers = [j \in Jobs |-> w]
    /\ buckets = DefaultBuckets
    /\ verbose = [j \in Jobs |-> FALSE]
    /\ pageSize = MaxPage
    /\ \E catalog \in JsonCatalogs(direction) :
         source = [j \in Jobs |-> IF j = 1 THEN catalog ELSE <<>>]
    /\ dest = [j \in Jobs |-> EmptyMap]
    /\ stateFile = [j \in Jobs |-> NoFile]
    /\ now = 1
    /\ round = 1
    /\ InitPrevious
    /\ InitProcess

SpecJson == InitJson /\ [][Next]_vars

\* saveState of job j has written the state file and returned nil.
Saved(j) ==
    /\ incremental
    /\ stateCreates[j] = 1
    /\ pc[j] \in {"ret", "finished"}
    /\ runErr[j] = "none"
    /\ stateFile[j].status = "ok"

\* What loadState reads back from the state file of job j.
Reloaded(j) == JsonDecode(stateFile[j].doc)

\* C20: state round trip.  The state file that saveState wrote, loaded back,
\* holds the keys of the state that was saved and, for every key, its
\* ETag, modification time and size.
C20_RoundTrip ==
    \A j \in Jobs : Saved(j) =>
        /\ DOMAIN Reloaded(j).Files = DOMAIN state[j].Files
        /\ \A k \in DOMAIN state[j].Files :
              Reloaded(j).Files[k] = state[j].Files[k]

\* C20 for the states all of whose keys are valid UTF-8.
C20_RoundTripValidKeys ==
    \A j \in Jobs :
        (/\ Saved(j)
         /\ \A k \in DOMAIN state[j].Files : InvalidByte \notin Range(k))
        => Reloaded(j) = state[j]

\* The catalog of job j holds an entry with an empty key.
HasEmptyKey(j) == \E n \in Entries(j) : objects[j][n].Key = <<>>

\* C21: an entry with an empty key is never selected for transfer, whether
\* the job is incremental or not, and the empty key is never a key of the
\* state, in memory or in the state file.
C21_EmptyKeySkipped ==
    \A j \in Jobs :
        /\ \A n \in DOMAIN toTransfer[j] : toTransfer[j][n].Key # <<>>
        /\ <<>> \notin DOMAIN state[j].Files
        /\ <<>> \notin DOMAIN stateFile[j].doc.files

\* C21 witness: an incremental job whose listing holds an entry with an
\* empty key selected other entries, transferred them and saved its state.
C21_Witness ==
    \E j \in Jobs :
        /\ HasEmptyKey(j)
        /\ toTransfer[j] # <<>>
        /\ Saved(j)
        /\ state[j].Files # EmptyMap

\* Run of job j returned an error of client setup, of the bucket check, of
\* the listing or of the directory walk.
EnumerationFailed(j) == runErr[j] \in {"init", "ensure", "list", "scan"}

\* C22: when client setup, the bucket check, the listing or the directory
\* walk fails, Run has returned the error: no catalog, partial or not, went
\* through the diff, no worker was started and no task handed out, and the
\* state file was not written.
C22_EnumerationFatal ==
    \A j \in Jobs : EnumerationFailed(j) =>
        /\ pc[j] \in {"ret", "finished"}
        /\ objects[j] = <<>>
        /\ ~filtered[j]
        /\ toTransfer[j] = <<>>
        /\ handed[j] = <<>>
        /\ completed[j] = EmptyMap
        /\ \A w \in WorkerIds : wpc[j][w] = "none"
        /\ stateCreates[j] = 0
        /\ stateFile[j] = stateFile0[j]

\* C22 witness: the listing of a non-empty source failed in an incremental
\* job, and the orchestrator has the result.
C22_Witness ==
    \E j \in Jobs :
        /\ runErr[j] \in {"list", "scan"}
        /\ pc[j] = "finished"
        /\ incremental
        /\ source[j] # <<>>

\* ---------------------------------------------- buckets and state files
\* Bucket configurations ValidateConfig accepts: a name, and a state_file
\* or none.  Nothing requires the names or the state files of two buckets
\* to differ.
BucketConfigs ==
    [Name : {<<"a">>, <<"b">>}, StateFile : {<<>>, <<"s.json">>}]

\* One incremental invocation over MaxJobs buckets of such a configuration,
\* each with the same source, an empty destination and no state file yet.
InitShared ==
    /\ direction \in {"download", "upload"}
    /\ incremental = TRUE
    /\ njobs = MaxJobs
    /\ workers = [j \in Jobs |-> 1]
    /\ buckets \in [Jobs -> BucketConfigs]
    /\ verbose = [j \in Jobs |-> FALSE]
    /\ pageSize = MaxPage
    /\ source = [j \in Jobs |-> SampleSources(direction)[1]]
    /\ dest = [j \in Jobs |-> EmptyMap]
    /\ stateFile = [j \in Jobs |-> NoFile]
    /\ now = 1
    /\ round = 1
    /\ InitPrevious
    /\ InitProcess

SpecShared == InitShared /\ [][Next]_vars

\* Job j has opened or created the file at its Options.StateFile.
TouchedStateFile(j) == stateOpens[j] > 0 \/ stateCreates[j] > 0

\* C23: each job of an orchestrator run owns its state: it starts from a
\* fresh empty state, and no two jobs of the run load from or save to the
\* same state file.
C23_OwnState ==
    /\ \A j \in Jobs : pc[j] \in {"new", "init"} => state[j] = NewState
    /\ \A i, j \in Jobs :
          (i # j /\ TouchedStateFile(i) /\ TouchedStateFile(j))
          => OptionsStateFile(i) # OptionsStateFile(j)

\* retry.max_attempts of the default configuration file.
RetryMaxAttempts == 3

\* The calls of downloadObject / uploadFile for key k in job j: the worker
\* loop calls it once for every task it receives.
Attempts(j, k) == Occurrences(handed[j], k)

\* C25: a transfer that fails is retried: when a worker reports the error
\* of an object, the object was attempted retry.max_attempts times.
C25_Retried ==
    \A j \in Jobs :
        \A n \in DOMAIN errorChan[j] :
            Attempts(j, errorChan[j][n]) = RetryMaxAttempts

\* Worker w of job j has returned from its loop.
WorkerDone(j, w) == wpc[j][w] = "done"

\* C26: worker failure policy.  A step that sends an error to errorChan
\* sends one error, is the step of one worker that was in a transfer and
\* returns from its loop, and leaves the queue and every other worker as
\* they were; a worker that has returned never takes a task again.
C26_FailurePolicy ==
    [][\A j \in Jobs :
          /\ Len(errorChan'[j]) > Len(errorChan[j]) =>
                /\ Len(errorChan'[j]) = Len(errorChan[j]) + 1
                /\ objectChan'[j] = objectChan[j]
                /\ \E w \in WorkerIds :
                      /\ wpc[j][w] = "busy"
                      /\ WorkerDone(j, w)'
                      /\ \A v \in WorkerIds \ {w} :
                            /\ wpc'[j][v] = wpc[j][v]
                            /\ wtask'[j][v] = wtask[j][v]
          /\ \A w \in WorkerIds :
                WorkerDone(j, w) => (WorkerDone(j, w)' /\ wtask'[j][w] = <<>>)
      ]_vars

\* C26 witness: one worker failed and has returned, its error is in
\* errorChan, and another worker of the job is in a transfer.
C26_Witness ==
    \E j \in Jobs : \E w, v \in WorkerIds :
        /\ w # v
        /\ WorkerDone(j, w)
        /\ Len(errorChan[j]) = 1
        /\ ~chanClosed[j]
        /\ wpc[j][v] = "busy"

\* Run of job j has returned the first error of errorChan while worker w of
\* the job is in a transfer, and the process goes on.
ReturnedEarly(j, w) ==
    /\ pc[j] \in {"ret", "finished"}
    /\ runErr[j] = "transfer"
    /\ wpc[j][w] = "busy"
    /\ orchPc \notin {"done", "panicked"}

\* C27: early return on the first error.  Run returns the first error
\* without waiting for the other workers, and nothing cancels them: a
\* worker that is in a transfer when Run has returned can complete it.
C27_NoCancellation ==
    \A j \in Jobs : \A w \in WorkerIds :
        ReturnedEarly(j, w) => ENABLED WorkerSucceed(j, w)

\* C27 witness: Run has returned to the orchestrator, which counted the
\* failure, while a worker of the job is still in a transfer.
C27_Witness ==
    \E j \in Jobs : \E w \in WorkerIds :
        /\ ReturnedEarly(j, w)
        /\ pc[j] = "finished"
        /\ failureCount >= 1

\* No worker of job j is running: none was started, or each has returned.
NoWorkerRunning(j) == \A w \in WorkerIds : wpc[j][w] \in {"none", "done"}

\* C28: the map of the state is never written while a worker of the job is
\* running.  A step that changes it is loadState, before the pool exists,
\* or updateState, after the scheduler returned nil and every worker has
\* returned; when the scheduler returned an error the map is not written.
C28_StateQuiet ==
    [][\A j \in Jobs :
          state'[j].Files # state[j].Files =>
              /\ NoWorkerRunning(j)
              /\ runErr[j] = "none"
              /\ \/ pc[j] = "load" /\ ~PoolStarted(j)
                 \/ pc[j] = "update" /\ errorClosed[j] /\ errorChan[j] = <<>>
      ]_vars

\* C28 witness: updateState has written the map of a job whose workers
\* transferred something and have all returned.
C28_Witness ==
    \E j \in Jobs :
        /\ pc[j] = "save"
        /\ state[j].Files # EmptyMap
        /\ completed[j] # EmptyMap
        /\ \E w \in WorkerIds : WorkerDone(j, w)
        /\ NoWorkerRunning(j)

\* ------------------------------------------- the same job, quiet and verbose
\* A size past the last unit of FormatSize (2^60 bytes in the code).
HugeSize == Unit ^ (UnitsLen + 1)

\* The sample worlds, and one whose source holds an entry of a huge size (a
\* sparse local file, an object of a store that reports such a size).
VerboseWorlds(dir) ==
    SampleWorlds(dir) \o
    << [source |-> << [SampleSources(dir)[1][1] EXCEPT !.Size = HugeSize],
                      SampleSources(dir)[1][2] >>,
        dest |-> EmptyMap,
        stateFile |-> NoFile] >>

\* Two jobs of one invocation on equal sources, destinations and state
\* files, with equal options but for Options.Verbose: the first is quiet,
\* the second verbose.
Quiet == 1
Loud == 2

InitVerbose ==
    /\ direction \in {"download", "upload"}
    /\ incremental \in BOOLEAN
    /\ njobs = Loud
    /\ \E w \in 0..1 : workers = [j \in Jobs |-> w]
    /\ buckets = DefaultBuckets
    /\ verbose = [j \in Jobs |-> j = Loud]
    /\ pageSize = MaxPage
    /\ \E n \in DOMAIN VerboseWorlds(direction) :
         /\ source = [j \in Jobs |-> VerboseWorlds(direction)[n].source]
         /\ dest = [j \in Jobs |-> VerboseWorlds(direction)[n].dest]
         /\ stateFile = [j \in Jobs |-> VerboseWorlds(direction)[n].stateFile]
    /\ now = 1
    /\ round = 1
    /\ InitPrevious
    /\ InitProcess

\* The world treats the verbose job as it treated the quiet one: a step of
\* Run fails for the verbose job exactly where, and as, it failed for the
\* quiet job, saveState leaves the state file in the same condition, and
\* the transfer of a key fails exactly if it failed for the quiet job.
SameEnvironment ==
    /\ (pc[Loud] = runErr[Quiet] /\ pc'[Loud] # pc[Loud])
          => runErr'[Loud] = runErr[Quiet]
    /\ runErr'[Loud] # runErr[Loud] => runErr'[Loud] = runErr[Quiet]
    /\ (pc[Loud] = "save" /\ pc'[Loud] # "save")
          => stateFile'[Loud].status = stateFile[Quiet].status
    /\ \A w \in WorkerIds :
          (wpc[Loud][w] = "busy" /\ wpc'[Loud][w] # "busy")
          => ((wpc'[Loud][w] = "idle")
                 <=> (wtask[Loud][w][1].Key \in DOMAIN completed[Quiet]))

NextVerbose == Next /\ SameEnvironment

SpecVerbose == InitVerbose /\ [][NextVerbose]_vars

\* The first sequence is the beginning of the second.
IsPrefix(s, t) == Len(s) <= Len(t) /\ s = SubSeq(t, 1, Len(s))

\* C24: the progress tracker is purely observational.  Of two runs of the
\* same job from the same initial state that differ only in the verbose
\* flag, the verbose one selects the entries the quiet one selected,
\* attempts the same transfers, returns the same result and persists the
\* same state.
C24_Observational ==
    /\ filtered[Loud] => toTransfer[Loud] = toTransfer[Quiet]
    /\ IsPrefix(handed[Loud], handed[Quiet])
    /\ pc[Loud] = "panicked" => pc[Quiet] = "panicked"
    /\ pc[Loud] \in {"ret", "finished"} =>
          /\ runErr[Loud] = runErr[Quiet]
          /\ handed[Loud] = handed[Quiet]
          /\ completed[Loud] = completed[Quiet]
          /\ stateFile[Loud].status = stateFile[Quiet].status
          /\ stateFile[Loud].doc.files = stateFile[Quiet].doc.files

\* C24 for the sources whose sizes FormatSize has a unit for.
C24_ObservationalWithinUnits ==
    (\A n \in DOMAIN source[Loud] : ~FormatSizePanics(source[Loud][n].Size))
    => C24_Observational

\* The AddFile calls of job j so far: one for each completed transfer.
RECURSIVE AddFileCalls(_, _)
AddFileCalls(j, n) ==
    IF n = 0 THEN 0
    ELSE Count(completed[j], toTransfer[j][n].Key) + AddFileCalls(j, n - 1)

\* The sum of the sizes those calls passed.
RECURSIVE AddFileSizes(_, _)
AddFileSizes(j, n) ==
    IF n = 0 THEN 0
    ELSE Count(completed[j], toTransfer[j][n].Key) * toTransfer[j][n].Size
         + AddFileSizes(j, n - 1)

\* C29: the progress counters lose no update.  Whatever the interleaving of
\* the workers, currentFiles is the number of AddFile calls (one for each
\* successfully transferred task, none for a failed one) and currentSize
\* the sum of their sizes; currentFiles never exceeds totalFiles, and it
\* equals totalFiles when the scheduler has returned nil.
C29_Counters ==
    \A j \in Jobs :
        /\ progress[j].currentFiles = AddFileCalls(j, Len(toTransfer[j]))
        /\ progress[j].currentSize = AddFileSizes(j, Len(toTransfer[j]))
        /\ progress[j].currentFiles <= progress[j].totalFiles
        /\ SchedulerReturnedNil(j) =>
              progress[j].currentFiles = progress[j].totalFiles

\* C29 for the worker counts of at least one.
C29_CountersWithWorkers ==
    (\A j \in Jobs : workers[j] >= 1) => C29_Counters

\* A failed transfer leaves the counters as they were.
C29_FailedNotCounted ==
    [][\A j \in Jobs : \A w \in WorkerIds :
          (wpc[j][w] = "busy" /\ wpc'[j][w] = "done")
          => progress'[j] = progress[j]]_vars

\* A downloadObject in which a failed os.Chtimes is an error: the object is
\* written, the error goes to errorChan and the worker returns.
DownloadObjectDone_TimeFatal(j, w) ==
    /\ PoolStarted(j)
    /\ wpc[j][w] = "busy"
    /\ LET task == wtask[j][w][1]
       IN  /\ dest' = [dest EXCEPT ![j] =
                         Put(@, DestName(task), DestEntry(task))]
           /\ \E timeSet \in BOOLEAN :
                IF timeSet
                THEN /\ progress' = [progress EXCEPT ![j] =
                                        AddFile(@, task.Size)]
                     /\ completed' = [completed EXCEPT ![j] =
                                         Put(@, task.Key,
                                             Count(@, task.Key) + 1)]
                     /\ wpc' = [wpc EXCEPT ![j][w] = "idle"]
                     /\ UNCHANGED <<timeFailed, errorChan>>
                ELSE /\ timeFailed' = [timeFailed EXCEPT ![j] =
                                          @ \cup {task.Key}]
                     /\ errorChan' = [errorChan EXCEPT ![j] =
                                         Append(@, task.Key)]
                     /\ wpc' = [wpc EXCEPT ![j][w] = "done"]
                     /\ UNCHANGED <<progress, completed>>
    /\ wtask' = [wtask EXCEPT ![j][w] = <<>>]
    /\ UNCHANGED <<config, listing, source, stateFile, now, round, orch, pc, state,
                   objects, toTransfer, runErr, objectChan, sent, chanClosed,
                   errorClosed, history, previous, handed>>

\* downloadObject returns nil, with the outcome of its os.Chtimes: the
\* directory or the file is written, the error of os.Chtimes (timeSet
\* FALSE) is at most printed, progress.AddFile, return nil.
DownloadObjectDone(j, w) ==
    /\ PoolStarted(j)
    /\ wpc[j][w] = "busy"
    /\ LET task == wtask[j][w][1]
       IN  /\ dest' = [dest EXCEPT ![j] =
                         Put(@, DestName(task), DestEntry(task))]
           /\ \E timeSet \in BOOLEAN :
                timeFailed' = [timeFailed EXCEPT ![j] =
                                  IF timeSet THEN @ ELSE @ \cup {task.Key}]
           /\ progress' = [progress EXCEPT ![j] = AddFile(@, task.Size)]
           /\ completed' = [completed EXCEPT ![j] =
                               Put(@, task.Key, Count(@, task.Key) + 1)]
    /\ wpc' = [wpc EXCEPT ![j][w] = "idle"]
    /\ wtask' = [wtask EXCEPT ![j][w] = <<>>]
    /\ UNCHANGED <<config, listing, source, stateFile, now, round, orch, pc, state,
                   objects, toTransfer, runErr, objectChan, sent, chanClosed,
                   errorChan, errorClosed, history, previous, handed>>

\* Every step of download job j and of its goroutines, the outcome of
\* os.Chtimes included.
DownloadStep(j) ==
    \/ InitS3Client(j)
    \/ LoadState(j)
    \/ MkdirOutputDir(j)
    \/ ListObjects(j)
    \/ FilterObjects(j)
    \/ StartWorkers(j)
    \/ FeederSend(j)
    \/ FeederClose(j)
    \/ \E w \in WorkerIds : WorkerRecv(j, w)
    \/ \E w \in WorkerIds : WorkerExit(j, w)
    \/ \E w \in WorkerIds : DownloadObjectDone(j, w)
    \/ \E w \in WorkerIds : WorkerFail(j, w)
    \/ CloserClose(j)
    \/ RecvError(j)
    \/ RecvClosed(j)
    \/ UpdateState(j)
    \/ SaveState(j)

\* One invocation of the download command on one bucket.
InitChtimes == InitWorld /\ direction = "download" /\ njobs = 1 /\ InitProcess

NextChtimes ==
    \/ OrchStartJob
    \/ \E j \in Jobs : DownloadStep(j)
    \/ OrchJobReturned
    \/ OrchReturn

SpecChtimes == InitChtimes /\ [][NextChtimes]_vars

\* The keys in the sequence of tasks or of errors s.
KeySet(s) == {s[n] : n \in DOMAIN s}

\* C30: a failed setting of the modification time is never fatal.  The step
\* of a worker whose os.Chtimes failed, on a file or on a created directory,
\* completes the task (progress is incremented), sends no error and leaves
\* the worker in its loop for the next task; the job's result is
\* unaffected: a task whose time was not set is never among the errors, and
\* a job all of whose tasks completed does not return a transfer error.
C30_TimeSetNotFatal ==
    /\ [][\A j \in Jobs :
            timeFailed'[j] # timeFailed[j]
            => /\ \E w \in WorkerIds :
                    /\ wpc[j][w] = "busy"
                    /\ wpc'[j][w] = "idle"
                    /\ timeFailed'[j] = timeFailed[j] \cup {wtask[j][w][1].Key}
                    /\ Count(completed'[j], wtask[j][w][1].Key)
                       = Count(completed[j], wtask[j][w][1].Key) + 1
               /\ progress'[j].currentFiles = progress[j].currentFiles + 1
               /\ errorChan'[j] = errorChan[j]
               /\ runErr'[j] = runErr[j]
               /\ pc'[j] = pc[j]]_vars
    /\ [](\A j \in Jobs :
            /\ timeFailed[j] \subseteq DOMAIN completed[j]
            /\ timeFailed[j] \cap KeySet(errorChan[j]) = {}
            /\ KeySet(Keys(toTransfer[j])) \subseteq DOMAIN completed[j]
               => runErr[j] # "transfer")

\* With one worker, both tasks of a job, the file and the directory, had
\* their time-set fail, and the job returned nil.
C30_Witness ==
    /\ workers[1] = 1
    /\ pc[1] = "finished"
    /\ runErr[1] = "none"
    /\ Len(toTransfer[1]) = 2
    /\ timeFailed[1] = KeySet(Keys(toTransfer[1]))
    /\ \E n \in DOMAIN toTransfer[1] : HasSuffix(toTransfer[1][n].Key, <<Slash>>)
    /\ progress[1].currentFiles = 2

\* The goroutines of the program are scheduled: the orchestrator, and of
\* each job the goroutine of Run, the feeder, the closer and each worker
\* take their next step when it stays possible; a transfer that a worker
\* has begun returns, with nil or with an error.
Fairness ==
    /\ WF_vars(OrchStartJob \/ OrchJobReturned \/ OrchReturn)
    /\ \A j \in Jobs :
          /\ WF_vars(Prepare(j) \/ StartWorkers(j) \/ RecvError(j)
                     \/ RecvClosed(j) \/ UpdateState(j) \/ SaveState(j))
          /\ WF_vars(FeederSend(j) \/ FeederClose(j))
          /\ WF_vars(CloserClose(j))
          /\ \A w \in WorkerIds :
                WF_vars(WorkerRecv(j, w) \/ WorkerExit(j, w)
                        \/ WorkerSucceed(j, w) \/ WorkerFail(j, w))

\* One invocation of the command on one bucket, its goroutines scheduled.
SpecLive == InitRuns /\ [][Next]_vars /\ Fairness

\* Run of job j has returned.
RunReturned(j) == pc[j] \in {"ret", "finished"}

\* The feeder, the workers and the closer of job j have all terminated.
PoolTerminated(j) ==
    /\ chanClosed[j]
    /\ \A w \in WorkerIds : wpc[j][w] \in {"none", "done"}
    /\ errorClosed[j]

\* C31: the scheduler terminates without deadlock or leak.  With a worker
\* count of at least one and every transfer returning, a started scheduler
\* leads to Run having returned, and to the feeder, every worker and the
\* closer having terminated for good, also when Run returned early on an
\* error; and the feeder is never blocked: while it has a task to send, the
\* task queue has room.
C31_Terminates ==
    \A j \in Jobs :
        /\ (pc[j] = "wait" /\ workers[j] >= 1) ~> RunReturned(j)
        /\ (pc[j] = "wait" /\ workers[j] >= 1) ~> [](RunReturned(j) /\ PoolTerminated(j))
        /\ []((PoolStarted(j) /\ sent[j] < Len(toTransfer[j]))
              => ENABLED FeederSend(j))

\* C31 witness: Run of a two-worker job returned on the first error while
\* the error of the other worker stayed in the channel, and the feeder, both
\* workers and the closer have terminated.
C31_Witness ==
    /\ workers[1] = 2
    /\ pc[1] = "finished"
    /\ runErr[1] = "transfer"
    /\ errorChan[1] # <<>>
    /\ PoolTerminated(1)

\* The workers of job j that have left their loop.
DoneWorkers(j) == {w \in WorkerIds : WorkerDone(j, w)}

\* The errors sent by the workers of job j so far: those in the channel
\* and the one Run received.
ErrorsSent(j) ==
    Len(errorChan[j]) + (IF runErr[j] = "transfer" THEN 1 ELSE 0)

\* C32: the error channel never overflows.  Each worker sends at most one
\* error, the channel never holds more than Workers errors, and the send of
\* a worker whose transfer failed is never blocked, before or after Run
\* returned; after Run returned on the first error it received, the errors
\* still in the channel, and those sent later, are received by nobody.
C32_NoOverflow ==
    /\ [](\A j \in Jobs :
            /\ workers[j] >= 0 => Len(errorChan[j]) <= workers[j]
            /\ ErrorsSent(j) <= Cardinality(DoneWorkers(j))
            /\ \A w \in WorkerIds :
                  wpc[j][w] = "busy" => ENABLED WorkerFail(j, w))
    /\ [][\A j \in Jobs :
            RunReturned(j) => /\ runErr'[j] = runErr[j]
                              /\ IsPrefix(errorChan[j], errorChan'[j])]_vars

\* C32 witness: the process is over, and the error of the second worker of
\* a job is still in the closed channel: Run returned the first.
C32_Witness ==
    /\ orchPc = "done"
    /\ runErr[1] = "transfer"
    /\ Len(errorChan[1]) = 1
    /\ errorClosed[1]
    /\ Cardinality(DoneWorkers(1)) = 2

\* C33: with a worker count of at least one, when the scheduler has
\* returned nil every task of the list was handed out and transferred
\* successfully exactly once, and every worker had exited before: the task
\* queue is closed and drained, no worker is in its loop, and the error
\* channel was closed, empty, after the last worker was done.
C33_NilMeansAllDone ==
    \A j \in Jobs :
        (workers[j] >= 1 /\ SchedulerReturnedNil(j))
        => /\ handed[j] = Keys(toTransfer[j])
           /\ \A n \in DOMAIN toTransfer[j] :
                 Count(completed[j], toTransfer[j][n].Key) = 1
           /\ progress[j].currentFiles = Len(toTransfer[j])
           /\ chanClosed[j] /\ objectChan[j] = <<>>
           /\ \A w \in WorkerIds :
                 wpc[j][w] = (IF WorkerStarted(workers[j], w)
                              THEN "done" ELSE "none")
           /\ errorClosed[j] /\ errorChan[j] = <<>>

\* C33 witness: the scheduler of a two-worker job with two tasks has just
\* returned nil.
C33_Witness ==
    /\ workers[1] = 2
    /\ pc[1] = "update"
    /\ runErr[1] = "none"
    /\ Len(toTransfer[1]) = 2
    /\ Cardinality(DoneWorkers(1)) = 2

\* Job j runs with no worker and has tasks.
ZeroWorkers(j) == workers[j] = 0 /\ toTransfer[j] # <<>>

\* C34: with a worker count of 0 and a non-empty task list the scheduler
\* returns nil without transferring any object (no task is handed out,
\* none completes, the destination stays as it was), and an incremental
\* download job then records every catalog entry in its state, with the
\* fingerprint listed, and saves it as if the objects had been transferred.
C34_ZeroWorkers ==
    /\ [](\A j \in Jobs : ZeroWorkers(j) =>
            /\ handed[j] = <<>>
            /\ completed[j] = EmptyMap
            /\ progress[j].currentFiles = 0
            /\ runErr[j] # "transfer"
            /\ (direction = "download" /\ incremental
                /\ pc[j] \in {"save", "ret", "finished"})
               => \A n \in Entries(j) :
                     objects[j][n].Key # <<>>
                     => /\ objects[j][n].Key \in DOMAIN state[j].Files
                        /\ state[j].Files[objects[j][n].Key]
                           = ObjectFileState(objects[j][n])
            /\ (direction = "download" /\ Saved(j))
               => stateFile[j] = FileOf(state[j]))
    /\ [][\A j \in Jobs : workers[j] = 0 => dest'[j] = dest[j]]_vars

\* C34 witness: an incremental download with no worker has saved a state
\* that records its two tasks, and the output directory is empty.
C34_Witness ==
    /\ direction = "download"
    /\ ZeroWorkers(1)
    /\ Len(toTransfer[1]) = 2
    /\ Saved(1)
    /\ dest[1] = EmptyMap
    /\ \A n \in DOMAIN toTransfer[1] :
          toTransfer[1][n].Key \in DOMAIN stateFile[1].doc.files

\* Every task of job j has been taken from the queue by a worker.
AllAttempted(j) == handed[j] = Keys(toTransfer[j])

\* Every worker of job j has exited on an error.
AllWorkersFailed(j) == ErrorsSent(j) = workers[j]

\* main: app.Run has returned; main returns, or calls os.Exit(1) on an
\* error.  The process ends, and with it every goroutine still running.
ProcessExit ==
    /\ orchPc = "done"
    /\ orchPc' = "exited"
    /\ UNCHANGED <<config, listing, world, round, bucket, successCount, failureCount,
                   orchErr, pc, state, objects, toTransfer, runErr, progress,
                   pool, history, previous, transfers>>

NextExit == Next \/ ProcessExit

\* One invocation of the command on one bucket, to the end of the process.
SpecExit == InitRuns /\ [][NextExit]_vars /\ Fairness

\* C35: progress under partial failure.  In a scheduler run with W >= 1
\* workers, every task is eventually taken from the queue and attempted
\* unless all W workers exit on errors: when the pool has terminated with a
\* task unattempted, every worker has sent an error.
C35_Progress ==
    \A j \in Jobs :
        /\ (pc[j] = "wait" /\ workers[j] >= 1)
              ~> (AllAttempted(j) \/ AllWorkersFailed(j))
        /\ []((workers[j] >= 1 /\ PoolTerminated(j) /\ ~AllAttempted(j))
              => AllWorkersFailed(j))

\* The diff of job j has run and selected nothing.
NothingSelected(j) == filtered[j] /\ toTransfer[j] = <<>>

\* C36: when the diff selects zero tasks, Run returns nil at once: no
\* scheduler is started (no worker, nothing sent or handed out, the tracker
\* untouched), and the state is neither updated nor saved: the state file,
\* with its last-run time and without the catalog entries it does not hold
\* yet, is as the invocation found it.
C36_NothingToDo ==
    \A j \in Jobs : NothingSelected(j) =>
        /\ RunReturned(j)
        /\ runErr[j] = "none"
        /\ \A w \in WorkerIds : wpc[j][w] = "none"
        /\ sent[j] = 0 /\ objectChan[j] = <<>> /\ handed[j] = <<>>
        /\ ~chanClosed[j] /\ ~errorClosed[j]
        /\ progress[j] = NewTracker
        /\ stateCreates[j] = 0
        /\ stateFile[j] = stateFile0[j]
        /\ state[j].Last = (IF incremental /\ stateFile0[j].status = "ok"
                            THEN stateFile0[j].doc.last ELSE NewState.Last)

\* C36 witness: an incremental download found a container marker whose
\* directory exists and no state file; it selected nothing and has
\* returned, and there is still no state file to record the marker.
C36_Witness ==
    /\ incremental
    /\ direction = "download"
    /\ NothingSelected(1)
    /\ pc[1] = "finished"
    /\ stateFile[1] = NoFile
    /\ \E n \in Entries(1) : IsMarker(objects[1][n].Key, objects[1][n].Size)

\* The entries job j loaded from the state file the invocation found.
LoadedFiles(j) ==
    IF stateFile0[j].status = "ok" THEN JsonDecode(stateFile0[j].doc).Files
    ELSE EmptyMap

\* C37: the state update of an upload touches only the selected keys.
\* After a successful incremental upload the entry of every uploaded file is
\* (empty content tag, the file's modification time, the file's size), and
\* every key not selected in this run, keys no longer present locally
\* included, has the entry it had when the state was loaded, no more and no
\* less; the state file saved holds this map.
C37_UploadStateFrame ==
    \A j \in Jobs :
        (direction = "upload" /\ Saved(j)) =>
        LET selected == Range(Keys(toTransfer[j]))
        IN  /\ DOMAIN completed[j] \subseteq selected
            /\ \A n \in DOMAIN toTransfer[j] :
                  toTransfer[j][n].Key \in DOMAIN completed[j]
                  => /\ toTransfer[j][n].Key \in DOMAIN state[j].Files
                     /\ state[j].Files[toTransfer[j][n].Key]
                        = FileState(<<>>, toTransfer[j][n].LastModified,
                                    toTransfer[j][n].Size)
            /\ DOMAIN state[j].Files \ selected = DOMAIN LoadedFiles(j) \ selected
            /\ \A k \in DOMAIN LoadedFiles(j) \ selected :
                  state[j].Files[k] = LoadedFiles(j)[k]
            /\ stateFile[j].doc.files = JsonEncode(state[j]).files

\* C37 witness: an incremental upload re-uploaded a changed file and saved
\* its state; the entry of a key that is gone from the local tree is in the
\* saved file as it was loaded.
C37_Witness ==
    /\ direction = "upload"
    /\ Saved(1)
    /\ completed[1] # EmptyMap
    /\ GoneKey \in DOMAIN LoadedFiles(1)
    /\ GoneKey \notin Range(Keys(source[1]))
    /\ GoneKey \in DOMAIN stateFile[1].doc.files
    /\ state[1].Files[GoneKey] = LoadedFiles(1)[GoneKey]

\* Run of job j returned the error of loadState.
LoadFailed(j) == runErr[j] = "load"

\* C38: a state file that exists but cannot be read or decoded makes an
\* incremental job fail at Load.  It is not taken for an empty state: Run
\* returns the error, with no enumeration, no diff, no worker and no
\* transfer, and the file is not written.
C38_CorruptStateFatal ==
    \A j \in Jobs :
        /\ (incremental /\ stateFile0[j].status = "corrupt"
            /\ stateOpens[j] >= 1) => LoadFailed(j)
        /\ LoadFailed(j) =>
              /\ incremental
              /\ stateFile0[j].status \in {"corrupt", "ok"}
              /\ RunReturned(j)
              /\ objects[j] = <<>>
              /\ ~filtered[j]
              /\ toTransfer[j] = <<>>
              /\ \A w \in WorkerIds : wpc[j][w] = "none"
              /\ handed[j] = <<>>
              /\ completed[j] = EmptyMap
              /\ stateCreates[j] = 0
              /\ stateFile[j] = stateFile0[j]

\* C38 witness: an incremental job found a state file it cannot decode and
\* a non-empty source; the orchestrator has its error, and the file is as
\* it was.
C38_Witness ==
    /\ incremental
    /\ stateFile0[1] = CorruptFile
    /\ source[1] # <<>>
    /\ pc[1] = "finished"
    /\ LoadFailed(1)
    /\ failureCount = 1
    /\ stateFile[1] = CorruptFile

\* ------------------------------------------------ listObjects, paged
\* The store's answer to ListObjectsV2 with the continuation token tok: the
\* next pageSize keys of the bucket, whether more follow, and the cursor of
\* what follows.
ListObjectsV2(content, tok, size) ==
    LET from == IF tok = NoToken THEN 0 ELSE tok[1]
        upto == IF from + size < Len(content) THEN from + size
                ELSE Len(content)
    IN  [Contents |-> SubSeq(content, from + 1, upto),
         IsTruncated |-> upto < Len(content),
         NextContinuationToken |->
             IF upto < Len(content) THEN <<upto>> ELSE NoToken]

\* A listObjects that asks for every page with the token of the first.
ListPage_NoCursor(j) ==
    /\ pc[j] = "list"
    /\ requests' = Append(requests, token)
    /\ \E ok \in BOOLEAN :
         IF ok
         THEN LET result == ListObjectsV2(source[j], token, pageSize)
              IN  /\ objects' = [objects EXCEPT ![j] = @ \o result.Contents]
                  /\ IF ~result.IsTruncated
                     THEN pc' = [pc EXCEPT ![j] = "filter"]
                     ELSE UNCHANGED pc
                  /\ UNCHANGED <<token, runErr>>
         ELSE /\ ReturnErr(j, "list")
              /\ objects' = [objects EXCEPT ![j] = <<>>]
              /\ UNCHANGED token
    /\ UNCHANGED <<config, pageSize, world, round, orch, state, toTransfer,
                   progress, pool, history, previous, transfers>>

\* One iteration of the loop of listObjects: a request with the current
\* token; on an error return nil and the error; otherwise append the page,
\* break on a page that is not truncated, else take its cursor and go on.
ListPage(j) ==
    /\ pc[j] = "list"
    /\ requests' = Append(requests, token)
    /\ \E ok \in BOOLEAN :
         IF ok
         THEN LET result == ListObjectsV2(source[j], token, pageSize)
              IN  /\ objects' = [objects EXCEPT ![j] = @ \o result.Contents]
                  /\ IF ~result.IsTruncated
                     THEN /\ pc' = [pc EXCEPT ![j] = "filter"]
                          /\ UNCHANGED token
                     ELSE /\ token' = result.NextContinuationToken
                          /\ UNCHANGED pc
                  /\ UNCHANGED runErr
         ELSE /\ ReturnErr(j, "list")
              /\ objects' = [objects EXCEPT ![j] = <<>>]
              /\ UNCHANGED token
    /\ UNCHANGED <<config, pageSize, world, round, orch, state, toTransfer,
                   progress, pool, history, previous, transfers>>

\* The bucket listings that are paged: up to MaxListed objects.
Listings ==
    UNION {[1..n -> {ObjA, ObjDir, ObjNoKey}] : n \in 0..MaxListed}

\* A download of one bucket, up to its listing.
InitPages ==
    /\ direction = "download"
    /\ incremental \in BOOLEAN
    /\ njobs = 1
    /\ workers = [j \in Jobs |-> 1]
    /\ buckets = DefaultBuckets
    /\ verbose = [j \in Jobs |-> FALSE]
    /\ pageSize \in 1..MaxPage
    /\ \E listing1 \in Listings :
         source = [j \in Jobs |-> IF j = 1 THEN listing1 ELSE <<>>]
    /\ dest = [j \in Jobs |-> EmptyMap]
    /\ stateFile = [j \in Jobs |-> NoFile]
    /\ now = 1
    /\ round = 1
    /\ InitPrevious
    /\ InitProcess

NextPages ==
    \/ OrchStartJob
    \/ \E j \in Jobs : \/ InitS3Client(j)
                        \/ LoadState(j)
                        \/ MkdirOutputDir(j)
                        \/ ListPage(j)
    \/ OrchJobReturned
    \/ OrchReturn

SpecPages == InitPages /\ [][NextPages]_vars

\* The keys the pages requested so far hold together.
Paged == IF Len(requests) * pageSize < Len(source[1])
         THEN Len(requests) * pageSize ELSE Len(source[1])

\* C39: paginated enumeration.  listObjects asks for the first page with no
\* token and for every further page with the cursor of the page before; it
\* asks again only after a truncated page; what it has gathered is the
\* concatenation of the pages in order, none skipped or duplicated; and it
\* ends at the first page that is not truncated, returning the whole
\* listing.
C39_Paginated ==
    /\ \A i \in DOMAIN requests :
          /\ requests[i] = (IF i = 1 THEN NoToken
                            ELSE ListObjectsV2(source[1], requests[i - 1],
                                               pageSize).NextContinuationToken)
          /\ i < Len(requests)
             => ListObjectsV2(source[1], requests[i], pageSize).IsTruncated
    /\ runErr[1] = "none" => objects[1] = SubSeq(source[1], 1, Paged)
    /\ pc[1] = "filter" =>
          /\ requests # <<>>
          /\ ~ListObjectsV2(source[1], requests[Len(requests)],
                            pageSize).IsTruncated
          /\ objects[1] = source[1]
    /\ (pc[1] = "list" /\ requests # <<>>) =>
          ListObjectsV2(source[1], requests[Len(requests)],
                        pageSize).IsTruncated

\* C39 witness: a listing of three objects came in three pages of one.
C39_Witness ==
    /\ pageSize = 1
    /\ source[1] = <<ObjNoKey, ObjA, ObjDir>>
    /\ pc[1] = "filter"
    /\ requests = <<NoToken, <<1>>, <<2>>>>
    /\ objects[1] = source[1]

====
